---- MODULE Spec2Model ----
(***************************************************************************)
(* Order-flow server: the market-feed loop and its tick rule, the          *)
(* websocket frame decoder, the OrderFlowAnalyzer and its signal scoring.  *)
(*                                                                         *)
(* Conventions.  A Python dict is a function whose DOMAIN is the set of    *)
(* keys present.  A float is an exact rational <<num, den>> with den >= 0  *)
(* (den = 0 is float('inf')); float rounding is not modelled.  A float32   *)
(* read from the wire is kept as its 32-bit pattern.                       *)
(***************************************************************************)
EXTENDS Integers, Sequences, FiniteSets, TLC

VARIABLES
    live_market_data,     \* orderflow.py:18   security id -> latest event
    orderflow_history,    \* orderflow.py:21   security id -> list of events
    prev_ltp,             \* flask_server.py:31 security id -> previous LTP
    db,                   \* flask_server.py:60 rows of table orderflow
    data_store,           \* orderflow.py:663  DhanWebSocketClient.data_store
    ws_out,               \* orderflow.py:666  lines printed by on_message
    ws_received,          \* orderflow.py:665  messages handed to on_message
    ws_raised,            \* orderflow.py:665  an exception left on_message
    order_flow_history,   \* orderflow.py:35   analyzer deque(maxlen=1000)
    previous_book,        \* orderflow.py:36
    previous_traded_data, \* orderflow.py:37
    result,               \* orderflow.py:766 what process_order_flow returned last
    now,                  \* datetime.now(), in seconds
    sig_flow_data,        \* argument of generate_order_flow_signals
    sig_result,           \* its return value
    instrument_list,      \* orderflow.py:660  DhanWebSocketClient.instrument_list
    ws_conns,             \* orderflow.py:738  the WebSocketApps run() created
    feed_pc,              \* flask_server.py:85 where marketfeed_thread stands
    feed_conn,            \* flask_server.py:58 the connection of market_feed
    feed_response,        \* flask_server.py:91 response, local of the loop
    ws_pc,                \* orderflow.py:665  where a running on_message stands
    ws_message,           \* orderflow.py:665  its message
    delta_history,        \* flask_server.py:27
    last_reset_date,      \* flask_server.py:28
    summary_lookback,     \* orderflow.py:559  argument of get_flow_summary
    summary,              \* its return value
    http_request,         \* flask_server.py:161 the request answered last
    http_response,        \* the status and JSON body it was answered with
    df                    \* flask_server.py:169 the rows get_delta_data read last

vars == <<live_market_data, orderflow_history, prev_ltp, db, data_store, ws_out,
          ws_received, ws_raised, order_flow_history, previous_book, previous_traded_data,
          result, now, sig_flow_data, sig_result, instrument_list, ws_conns, feed_pc,
          feed_conn, feed_response, ws_pc, ws_message, delta_history,
          last_reset_date, summary_lookback, summary, http_request,
          http_response, df>>

feedVars == <<live_market_data, orderflow_history, prev_ltp, db>>
wsVars == <<data_store, ws_out, ws_received, ws_raised>>
analyzerVars ==
    <<order_flow_history, previous_book, previous_traded_data, result, now>>
sigVars == <<sig_flow_data, sig_result>>
clientVars == <<instrument_list, ws_conns>>
loopVars == <<feed_pc, feed_conn, feed_response>>
resetVars == <<delta_history, last_reset_date>>
queryVars == <<summary_lookback, summary, http_request, http_response, df>>
sessionVars == <<clientVars, loopVars, ws_pc, ws_message, resetVars, queryVars>>

----------------------------------------------------------------------------
(* Bounds of the model *)

MaxEvents == 3
MaxSnapshots == 2
MaxMessages == 2
MaxClock == 1
HistOverflow == 1
MaxInstruments == 250
MaxRuns == 2
MaxDays == 1
MaxRecords == 4
MaxRows == 3

----------------------------------------------------------------------------
(* Python dicts and small helpers *)

EmptyDict == <<>>

Has(d, k) == k \in DOMAIN d

Get(d, k, default) == IF k \in DOMAIN d THEN d[k] ELSE default

Put(d, k, v) == [x \in (DOMAIN d) \cup {k} |-> IF x = k THEN v ELSE d[x]]

Drop(d, k) == [x \in (DOMAIN d) \ {k} |-> d[x]]

Digits == <<"0", "1", "2", "3", "4", "5", "6", "7", "8", "9">>

RECURSIVE StrOf(_)
StrOf(n) ==
    IF n < 10 THEN Digits[n + 1] ELSE StrOf(n \div 10) \o Digits[(n % 10) + 1]

Last(s) == s[Len(s)]

----------------------------------------------------------------------------
(* flask_server.py: the market-feed loop *)

\* The tick rule of marketfeed_thread; hasPrev is "prev is not None".
TickRule(hasPrev, prev, ltp, ltq) ==
    LET applies == hasPrev /\ ltq # 0
        buy_initiated == IF applies /\ ltp > prev THEN ltq ELSE 0
        sell_initiated == IF applies /\ ~(ltp > prev) /\ ltp < prev THEN ltq ELSE 0
    IN [buy_initiated |-> buy_initiated,
        sell_initiated |-> sell_initiated,
        tick_delta |-> buy_initiated - sell_initiated]

\* one previous price shared by all securities
PrevKeyShared(security_id) == "1"

\* prev_ltp is a defaultdict(lambda: None): the key read for an event.
PrevKey(security_id) == security_id

\* timestamp of a persisted row: "<today> <LTT>" or datetime.now().isoformat()
RowTimestamp(ltt, clock) == IF ltt # 0 THEN <<"ltt", ltt>> ELSE <<"iso", clock>>

store_in_db(rows, security_id, timestamp, buy, sell, ltp, volume, tick) ==
    Append(rows, [security_id |-> security_id,
                  timestamp |-> timestamp,
                  buy_volume |-> buy,
                  sell_volume |-> sell,
                  ltp |-> ltp,
                  volume |-> volume,
                  buy_initiated |-> tick.buy_initiated,
                  sell_initiated |-> tick.sell_initiated,
                  tick_delta |-> tick.tick_delta])

\* One pass of the inner loop of marketfeed_thread for a dict response.
FeedEvent(response) ==
    LET security_id == StrOf(response.security_id)
        history == Get(orderflow_history, security_id, <<>>)
        ltt == Get(response, "LTT", 0)
        buy == Get(response, "total_buy_quantity", 0)
        sell == Get(response, "total_sell_quantity", 0)
        ltp == Get(response, "LTP", 0)
        volume == Get(response, "volume", 0)
        ltq == Get(response, "LTQ", 0)
        key == PrevKey(security_id)
        tick == TickRule(Has(prev_ltp, key), Get(prev_ltp, key, 0), ltp, ltq)
    IN /\ live_market_data' = Put(live_market_data, security_id, response)
       /\ orderflow_history' =
              Put(orderflow_history, security_id, Append(history, response))
       /\ IF Get(response, "type", "") = "Quote Data"
          THEN /\ prev_ltp' = Put(prev_ltp, security_id, ltp)
               /\ db' = store_in_db(db, security_id, RowTimestamp(ltt, now),
                                    buy, sell, ltp, volume, tick)
          ELSE UNCHANGED <<prev_ltp, db>>
       /\ UNCHANGED <<wsVars, analyzerVars, sigVars, sessionVars>>

\* The same pass when store_in_db raises: everything up to line 131 is
\* done, no row is written, and the exception goes to the handler at line 134.
FeedEventStoreRaises(response) ==
    LET security_id == StrOf(response.security_id)
        history == Get(orderflow_history, security_id, <<>>)
    IN /\ Get(response, "type", "") = "Quote Data"
       /\ live_market_data' = Put(live_market_data, security_id, response)
       /\ orderflow_history' =
              Put(orderflow_history, security_id, Append(history, response))
       /\ prev_ltp' = Put(prev_ltp, security_id, Get(response, "LTP", 0))
       /\ feed_pc' = "sleep"
       /\ UNCHANGED <<db, feed_conn, feed_response>>
       /\ UNCHANGED <<wsVars, analyzerVars, sigVars, clientVars, ws_pc,
                      ws_message, resetVars, queryVars>>

\* market_feed.run_forever() returns: market_feed is connected and has
\* subscribed the instrument list it was built with
RunForeverReturns ==
    /\ feed_pc = "run_forever"
    /\ feed_pc' = "get_data"
    /\ feed_conn' = "open"
    /\ UNCHANGED <<feedVars, wsVars, analyzerVars, sigVars, clientVars,
                   feed_response, ws_pc, ws_message, resetVars, queryVars>>

\* market_feed.run_forever() raises: "except Exception" prints
RunForeverRaises ==
    /\ feed_pc = "run_forever"
    /\ feed_pc' = "sleep"
    /\ feed_conn' = "none"
    /\ UNCHANGED <<feedVars, wsVars, analyzerVars, sigVars, clientVars,
                   feed_response, ws_pc, ws_message, resetVars, queryVars>>

\* market_feed.get_data() raises because the connection is lost
GetDataRaises ==
    /\ feed_pc = "get_data"
    /\ feed_pc' = "sleep"
    /\ feed_conn' = "none"
    /\ UNCHANGED <<feedVars, wsVars, analyzerVars, sigVars, clientVars,
                   feed_response, ws_pc, ws_message, resetVars, queryVars>>

\* "time.sleep(2)" returns and the outer loop starts over
Backoff ==
    /\ feed_pc = "sleep"
    /\ feed_pc' = "run_forever"
    /\ UNCHANGED <<feedVars, wsVars, analyzerVars, sigVars, clientVars,
                   feed_conn, feed_response, ws_pc, ws_message, resetVars,
                   queryVars>>

\* The pass of the inner loop statement by statement, as another thread sees
\* it: feed_pc is the line the feed thread executes next.
FeedGet(response) ==
    /\ feed_pc = "get_data"
    /\ feed_response' = response
    /\ feed_pc' = "L106"
    /\ UNCHANGED <<feedVars, wsVars, analyzerVars, sigVars, clientVars,
                   feed_conn, ws_pc, ws_message, resetVars, queryVars>>

\* live_market_data[security_id] = response
FeedL106 ==
    /\ feed_pc = "L106"
    /\ live_market_data' =
           Put(live_market_data, StrOf(feed_response.security_id), feed_response)
    /\ feed_pc' = "L107"
    /\ UNCHANGED <<orderflow_history, prev_ltp, db, wsVars, analyzerVars,
                   sigVars, clientVars, feed_conn, feed_response, ws_pc,
                   ws_message, resetVars, queryVars>>

\* if security_id not in orderflow_history:
FeedL107 ==
    /\ feed_pc = "L107"
    /\ feed_pc' = IF Has(orderflow_history, StrOf(feed_response.security_id))
                  THEN "L109" ELSE "L108"
    /\ UNCHANGED <<feedVars, wsVars, analyzerVars, sigVars, clientVars,
                   feed_conn, feed_response, ws_pc, ws_message, resetVars,
                   queryVars>>

\* orderflow_history[security_id] = []
FeedL108 ==
    /\ feed_pc = "L108"
    /\ orderflow_history' =
           Put(orderflow_history, StrOf(feed_response.security_id), <<>>)
    /\ feed_pc' = "L109"
    /\ UNCHANGED <<live_market_data, prev_ltp, db, wsVars, analyzerVars,
                   sigVars, clientVars, feed_conn, feed_response, ws_pc,
                   ws_message, resetVars, queryVars>>

\* orderflow_history[security_id].append(response)
FeedL109 ==
    /\ feed_pc = "L109"
    /\ orderflow_history' =
           Put(orderflow_history, StrOf(feed_response.security_id),
               Append(orderflow_history[StrOf(feed_response.security_id)],
                      feed_response))
    /\ feed_pc' = "L110"
    /\ UNCHANGED <<live_market_data, prev_ltp, db, wsVars, analyzerVars,
                   sigVars, clientVars, feed_conn, feed_response, ws_pc,
                   ws_message, resetVars, queryVars>>

\* lines 111-133: the Quote Data branch, then time.sleep(0.01)
FeedL110 ==
    LET response == feed_response
        security_id == StrOf(response.security_id)
        ltp == Get(response, "LTP", 0)
        key == PrevKey(security_id)
        tick == TickRule(Has(prev_ltp, key), Get(prev_ltp, key, 0), ltp,
                         Get(response, "LTQ", 0))
    IN /\ feed_pc = "L110"
       /\ IF Get(response, "type", "") = "Quote Data"
          THEN /\ prev_ltp' = Put(prev_ltp, security_id, ltp)
               /\ db' = store_in_db(db, security_id,
                                    RowTimestamp(Get(response, "LTT", 0), now),
                                    Get(response, "total_buy_quantity", 0),
                                    Get(response, "total_sell_quantity", 0),
                                    ltp, Get(response, "volume", 0), tick)
          ELSE UNCHANGED <<prev_ltp, db>>
       /\ feed_pc' = "get_data"
       /\ UNCHANGED <<live_market_data, orderflow_history, wsVars, analyzerVars,
                      sigVars, clientVars, feed_conn, feed_response, ws_pc,
                      ws_message, resetVars, queryVars>>

\* RESET_TIME = "09:15", as hour and minute
RESET_TIME == <<9, 15>>

\* now.strftime('%H:%M') >= RESET_TIME: zero-padded strings compare as
\* hour, then minute
TimeGE(a, b) == a[1] > b[1] \/ (a[1] = b[1] /\ a[2] >= b[2])

\* maybe_reset_history() called on day today at time hhmm
maybe_reset_history(today, hhmm) ==
    /\ IF last_reset_date # today /\ TimeGE(hhmm, RESET_TIME)
       THEN /\ delta_history' = EmptyDict
            /\ last_reset_date' = today
       ELSE UNCHANGED <<delta_history, last_reset_date>>
    /\ UNCHANGED <<feedVars, wsVars, analyzerVars, sigVars, clientVars,
                   loopVars, ws_pc, ws_message, queryVars>>

----------------------------------------------------------------------------
(* orderflow.py: DhanWebSocketClient.on_message *)

\* message[a:b] for 0 <= a <= b: a slice stops at the end of the message
Slice(message, a, b) ==
    SubSeq(message, a + 1, IF b > Len(message) THEN Len(message) ELSE b)

\* struct.unpack raises struct.error unless the buffer has the format's size
StructError(size, bytes) == Len(bytes) # size

\* struct.unpack big-endian readers on a byte string
UnpackB(bytes) == bytes[1]

UnpackH(bytes) == bytes[1] * 256 + bytes[2]

\* the quantity read as an unsigned 16-bit integer
UnpackhUnsigned(bytes) == UnpackH(bytes)

Unpackh(bytes) ==
    IF UnpackH(bytes) >= 32768 THEN UnpackH(bytes) - 65536 ELSE UnpackH(bytes)

UnpackI(bytes) == ((bytes[1] * 256 + bytes[2]) * 256 + bytes[3]) * 256 + bytes[4]

\* ">f": the float32 with this bit pattern
Unpackf(bytes) == UnpackI(bytes)

\* struct.unpack(">BHB I", message[:8])
UnpackHeader(message) ==
    [code |-> UnpackB(Slice(message, 0, 1)),
     msg_len |-> UnpackH(Slice(message, 1, 3)),
     segment |-> UnpackB(Slice(message, 3, 4)),
     security_id |-> UnpackI(Slice(message, 4, 8))]

\* the dict built for a Quote packet
QuoteEntry(message, clock) ==
    [timestamp |-> <<"iso", clock>>,
     ltp |-> Unpackf(Slice(message, 8, 12)),
     last_traded_qty |-> Unpackh(Slice(message, 12, 14)),
     ltt |-> UnpackI(Slice(message, 14, 18)),
     atp |-> Unpackf(Slice(message, 18, 22)),
     volume |-> UnpackI(Slice(message, 22, 26)),
     sell_qty |-> UnpackI(Slice(message, 26, 30)),
     buy_qty |-> UnpackI(Slice(message, 30, 34)),
     day_open |-> Unpackf(Slice(message, 34, 38)),
     day_close |-> Unpackf(Slice(message, 38, 42)),
     day_high |-> Unpackf(Slice(message, 42, 46)),
     day_low |-> Unpackf(Slice(message, 46, 50))]

\* a message that is never read as a header
TooShortNever(message) == FALSE

\* "if len(message) < 8: return"
TooShort(message) == Len(message) < 8

\* which branch of on_message a message takes; "raised" is an exception of
\* the header unpack, which is outside the try block
MessageBranch(message) ==
    IF TooShort(message) THEN "short"
    ELSE IF StructError(8, Slice(message, 0, 8)) THEN "raised"
    ELSE LET code == UnpackHeader(message).code
         IN IF code = 4 /\ Len(message) >= 50 THEN "quote"
            ELSE IF code = 2 /\ Len(message) >= 16 THEN "ticker"
            ELSE IF code = 5 /\ Len(message) >= 12 THEN "oi"
            ELSE "unhandled"

\* the lines on_message prints for a message
Printed(message) ==
    LET received == <<"received", Len(message)>>
        branch == MessageBranch(message)
        h == UnpackHeader(message)
        header == <<"header", h.code, h.msg_len, h.segment, h.security_id>>
    IN CASE branch \in {"short", "raised"} -> <<received>>
         [] branch = "quote" ->
                <<received, header, <<"updated", h.security_id>>>>
         [] branch = "ticker" ->
                <<received, header,
                  <<"ticker", h.security_id, Unpackf(Slice(message, 8, 12)),
                    UnpackI(Slice(message, 12, 16))>>>>
         [] branch = "oi" ->
                <<received, header,
                  <<"oi", h.security_id, UnpackI(Slice(message, 8, 12))>>>>
         [] OTHER ->
                <<received, header, <<"unhandled", h.code, Len(message)>>>>

on_message(message) ==
    /\ ws_received' = Append(ws_received, message)
    /\ ws_raised' = (ws_raised \/ MessageBranch(message) = "raised")
    /\ ws_out' = ws_out \o Printed(message)
    /\ IF MessageBranch(message) = "quote"
       THEN LET security_id == StrOf(UnpackHeader(message).security_id)
                entry == QuoteEntry(message, now)
                history == Get(orderflow_history, security_id, <<>>)
            IN /\ data_store' = Put(data_store, security_id, entry)
               /\ orderflow_history' =
                      Put(orderflow_history, security_id, Append(history, entry))
       ELSE UNCHANGED <<data_store, orderflow_history>>
    /\ UNCHANGED <<live_market_data, prev_ltp, db, analyzerVars, sigVars,
                   sessionVars>>


\* on_message statement by statement, as another thread sees it: ws_pc is
\* the line the callback thread executes next.  Lines 666-698: the prints,
\* the header and, for a Quote packet, the entry.
WsStart(message) ==
    /\ ws_pc = "idle"
    /\ ws_received' = Append(ws_received, message)
    /\ ws_raised' = (ws_raised \/ MessageBranch(message) = "raised")
    /\ IF MessageBranch(message) = "quote"
       THEN /\ ws_out' = ws_out \o SubSeq(Printed(message), 1, 2)
            /\ ws_message' = message
            /\ ws_pc' = "L699"
       ELSE /\ ws_out' = ws_out \o Printed(message)
            /\ UNCHANGED <<ws_message, ws_pc>>
    /\ UNCHANGED <<feedVars, data_store, analyzerVars, sigVars, clientVars,
                   loopVars, resetVars, queryVars>>

\* self.data_store[str(security_id)] = entry
WsL699 ==
    /\ ws_pc = "L699"
    /\ data_store' = Put(data_store, StrOf(UnpackHeader(ws_message).security_id),
                         QuoteEntry(ws_message, now))
    /\ ws_pc' = "L700"
    /\ UNCHANGED <<feedVars, ws_out, ws_received, ws_raised, analyzerVars,
                   sigVars, clientVars, loopVars, ws_message, resetVars,
                   queryVars>>

\* if str(security_id) not in orderflow_history:
WsL700 ==
    /\ ws_pc = "L700"
    /\ ws_pc' = IF Has(orderflow_history,
                       StrOf(UnpackHeader(ws_message).security_id))
                THEN "L702" ELSE "L701"
    /\ UNCHANGED <<feedVars, wsVars, analyzerVars, sigVars, clientVars,
                   loopVars, ws_message, resetVars, queryVars>>

\* orderflow_history[str(security_id)] = []
WsL701 ==
    /\ ws_pc = "L701"
    /\ orderflow_history' =
           Put(orderflow_history, StrOf(UnpackHeader(ws_message).security_id),
               <<>>)
    /\ ws_pc' = "L702"
    /\ UNCHANGED <<live_market_data, prev_ltp, db, wsVars, analyzerVars,
                   sigVars, clientVars, loopVars, ws_message, resetVars,
                   queryVars>>

\* orderflow_history[str(security_id)].append(entry), then the print
WsL702 ==
    LET security_id == StrOf(UnpackHeader(ws_message).security_id)
    IN /\ ws_pc = "L702"
       /\ orderflow_history' =
              Put(orderflow_history, security_id,
                  Append(orderflow_history[security_id],
                         QuoteEntry(ws_message, now)))
       /\ ws_out' = ws_out \o SubSeq(Printed(ws_message), 3, 3)
       /\ ws_pc' = "idle"
       /\ UNCHANGED <<live_market_data, prev_ltp, db, data_store, ws_received,
                      ws_raised, analyzerVars, sigVars, clientVars, loopVars,
                      ws_message, resetVars, queryVars>>

----------------------------------------------------------------------------
(* orderflow.py: DhanWebSocketClient.run and the callbacks of a connection *)

\* "batch_size = 100"
batch_size == 100

\* a batch that takes one instrument too many
BatchInclusive(list, i) == Slice(list, i, i + batch_size + 1)

\* "batch = self.instrument_list[i:i+batch_size]"
Batch(list, i) == Slice(list, i, i + batch_size)

\* the messages the loop of on_open sends from index i on
RECURSIVE SubscribeMessages(_, _)
SubscribeMessages(list, i) ==
    IF i >= Len(list) THEN <<>>
    ELSE <<[RequestCode |-> 17,
            InstrumentCount |-> Len(Batch(list, i)),
            InstrumentList |-> Batch(list, i)]>>
         \o SubscribeMessages(list, i + batch_size)

\* run(): a new WebSocketApp and a daemon thread that runs it; the
\* WebSocketApp made by an earlier call is left as it is
run ==
    /\ ws_conns' = Append(ws_conns, [state |-> "connecting", sent |-> <<>>])
    /\ UNCHANGED <<feedVars, wsVars, analyzerVars, sigVars, instrument_list,
                   loopVars, ws_pc, ws_message, resetVars, queryVars>>

\* on_open(ws) on connection c
on_open(c) ==
    /\ ws_conns[c].state = "connecting"
    /\ ws_conns' = [ws_conns EXCEPT ![c] =
                       [state |-> "open",
                        sent |-> SubscribeMessages(instrument_list, 0)]]
    /\ UNCHANGED <<feedVars, wsVars, analyzerVars, sigVars, instrument_list,
                   loopVars, ws_pc, ws_message, resetVars, queryVars>>

\* on_error(ws, error) and on_close(ws, ...) on connection c: both print and
\* return, run_forever returns and the thread of the connection ends
on_close(c) ==
    /\ ws_conns[c].state \in {"connecting", "open"}
    /\ ws_conns' = [ws_conns EXCEPT ![c].state = "closed"]
    /\ UNCHANGED <<feedVars, wsVars, analyzerVars, sigVars, instrument_list,
                   loopVars, ws_pc, ws_message, resetVars, queryVars>>

----------------------------------------------------------------------------
(* orderflow.py: OrderFlowAnalyzer *)

\* floats as exact rationals <<num, den>>, den >= 0; <<1, 0>> is float('inf')
Rat(n, d) == <<n, d>>

Inf == <<1, 0>>

RatGT(a, b) == a[1] * b[2] > b[1] * a[2]

RatLT(a, b) == a[1] * b[2] < b[1] * a[2]

Abs(n) == IF n < 0 THEN -n ELSE n

RECURSIVE Gcd(_, _)
Gcd(m, n) == IF n = 0 THEN m ELSE Gcd(n, m % n)

\* lowest terms, denominator >= 0
Lowest(a) ==
    LET g == Gcd(Abs(a[1]), Abs(a[2]))
        sign == IF a[2] < 0 THEN -1 ELSE 1
    IN IF g = 0 THEN a ELSE <<sign * (a[1] \div g), sign * (a[2] \div g)>>

RatEq(a, b) == Lowest(a) = Lowest(b)

RECURSIVE SumQty(_)
SumQty(levels) ==
    IF levels = <<>> THEN 0
    ELSE Get(Head(levels), "quantity", 0) + SumQty(Tail(levels))

RECURSIVE SumValue(_)
SumValue(levels) ==
    IF levels = <<>> THEN 0
    ELSE Get(Head(levels), "price", 0) * Get(Head(levels), "quantity", 0)
         + SumValue(Tail(levels))

BidLevels(market_depth) == Get(Get(market_depth, "depth", EmptyDict), "buy", <<>>)

AskLevels(market_depth) == Get(Get(market_depth, "depth", EmptyDict), "sell", <<>>)

\* deque(maxlen=1000)
maxlen == 1000

\* deque.appendleft: the new record first
DequeAppendleft(deque, x) == <<x>> \o deque

DequeAppend(deque, x) ==
    IF Len(deque) >= maxlen THEN Append(Tail(deque), x) ELSE Append(deque, x)

extract_traded_quantities(market_depth, clock) ==
    LET buy == Get(market_depth, "buy_quantity", 0)
        sell == Get(market_depth, "sell_quantity", 0)
    IN [buy_quantity |-> buy,
        sell_quantity |-> sell,
        total_volume |-> Get(market_depth, "volume", 0),
        timestamp |-> clock,
        net_traded |-> buy - sell,
        buy_sell_ratio |-> IF sell > 0 THEN Rat(buy, sell)
                           ELSE IF buy > 0 THEN Inf ELSE Rat(1, 1)]

\* a delta that restarts from the current value when the field decreased
FieldDeltaRestart(current, previous) ==
    IF current < previous THEN current ELSE current - previous

\* current - previous of one cumulative field
FieldDelta(current, previous) == current - previous

\* the guard under which a ratio is computed rather than defaulted
RatioDefined(denominator) == denominator > 0

calculate_traded_quantity_delta(current_traded, previous_traded) ==
    LET buy_qty_delta ==
            FieldDelta(current_traded.buy_quantity, previous_traded.buy_quantity)
        sell_qty_delta ==
            FieldDelta(current_traded.sell_quantity, previous_traded.sell_quantity)
        volume_delta ==
            FieldDelta(current_traded.total_volume, previous_traded.total_volume)
        net_trade_flow == buy_qty_delta - sell_qty_delta
        total_interval_volume == buy_qty_delta + sell_qty_delta
        time_diff == current_traded.timestamp - previous_traded.timestamp
    IN [buy_qty_delta |-> buy_qty_delta,
        sell_qty_delta |-> sell_qty_delta,
        volume_delta |-> volume_delta,
        net_trade_flow |-> net_trade_flow,
        buy_percentage |-> IF RatioDefined(total_interval_volume)
                           THEN Rat(buy_qty_delta * 100, total_interval_volume)
                           ELSE Rat(50, 1),
        sell_percentage |-> IF RatioDefined(total_interval_volume)
                            THEN Rat(sell_qty_delta * 100, total_interval_volume)
                            ELSE Rat(50, 1),
        buy_intensity |-> IF RatioDefined(volume_delta)
                          THEN Rat(buy_qty_delta, volume_delta)
                          ELSE Rat(1, 2),
        sell_intensity |-> IF RatioDefined(volume_delta)
                           THEN Rat(sell_qty_delta, volume_delta)
                           ELSE Rat(1, 2),
        flow_rate |-> IF time_diff > 0 THEN Rat(net_trade_flow, time_diff)
                      ELSE Rat(0, 1),
        interval_volume |-> total_interval_volume]

calculate_imbalance_ratio(market_depth) ==
    LET total_bid_qty == SumQty(BidLevels(market_depth))
        total_ask_qty == SumQty(AskLevels(market_depth))
    IN IF total_ask_qty = 0 THEN Inf ELSE Rat(total_bid_qty, total_ask_qty)

calculate_weighted_prices(market_depth) ==
    LET bid_qty == SumQty(BidLevels(market_depth))
        ask_qty == SumQty(AskLevels(market_depth))
        weighted_bid == IF bid_qty > 0
                        THEN Rat(SumValue(BidLevels(market_depth)), bid_qty)
                        ELSE Rat(0, 1)
        weighted_ask == IF ask_qty > 0
                        THEN Rat(SumValue(AskLevels(market_depth)), ask_qty)
                        ELSE Rat(0, 1)
    IN [weighted_bid |-> weighted_bid,
        weighted_ask |-> weighted_ask,
        spread |-> Rat(weighted_ask[1] * weighted_bid[2]
                         - weighted_bid[1] * weighted_ask[2],
                       weighted_ask[2] * weighted_bid[2])]

calculate_order_book_delta(current_book, previous) ==
    LET bid_delta == SumQty(BidLevels(current_book)) - SumQty(BidLevels(previous))
        ask_delta == SumQty(AskLevels(current_book)) - SumQty(AskLevels(previous))
    IN [order_bid_delta |-> bid_delta,
        order_ask_delta |-> ask_delta,
        order_net_flow |-> bid_delta - ask_delta]

\* number of levels with quantity > average * threshold_multiplier (2.0)
LargeCount(levels) ==
    Cardinality({i \in 1..Len(levels) :
        Get(levels[i], "quantity", 0) * Len(levels) > SumQty(levels) * 2})

detect_large_orders(market_depth) ==
    [large_bid_count |-> LargeCount(BidLevels(market_depth)),
     large_ask_count |-> LargeCount(AskLevels(market_depth))]

analyze_depth_levels(market_depth) ==
    LET bids == BidLevels(market_depth)
        asks == AskLevels(market_depth)
        top5(l) == SubSeq(l, 1, IF Len(l) < 5 THEN Len(l) ELSE 5)
        deep(l) == SubSeq(l, 6, Len(l))
    IN [top5_bid_qty |-> SumQty(top5(bids)),
        top5_ask_qty |-> SumQty(top5(asks)),
        deep_bid_qty |-> SumQty(deep(bids)),
        deep_ask_qty |-> SumQty(deep(asks)),
        bid_depth_ratio |-> IF SumQty(deep(bids)) > 0
                            THEN Rat(SumQty(top5(bids)), SumQty(deep(bids)))
                            ELSE Inf,
        ask_depth_ratio |-> IF SumQty(deep(asks)) > 0
                            THEN Rat(SumQty(top5(asks)), SumQty(deep(asks)))
                            ELSE Inf]


\* the margin by which one score must exceed the other
SignalMargin == 2

\* the lower imbalance threshold, 0.67
ImbalanceLow == Rat(67, 100)

SignalScores(flow_data) ==
    LET traded_delta == Get(flow_data, "traded_delta", EmptyDict)
        net_trade_flow == Get(traded_delta, "net_trade_flow", 0)
        buy_percentage == Get(traded_delta, "buy_percentage", Rat(50, 1))
        buy_intensity == Get(traded_delta, "buy_intensity", Rat(1, 2))
        imbalance == Get(flow_data, "imbalance_ratio", Rat(1, 1))
        large_orders == Get(flow_data, "large_orders", EmptyDict)
        large_bid_count == Get(large_orders, "large_bid_count", 0)
        large_ask_count == Get(large_orders, "large_ask_count", 0)
    IN [bullish |->
            (IF net_trade_flow > 0 THEN 3 ELSE 0)
            + (IF RatGT(buy_percentage, Rat(60, 1)) THEN 2 ELSE 0)
            + (IF RatGT(buy_intensity, Rat(6, 10)) THEN 2 ELSE 0)
            + (IF RatGT(imbalance, Rat(15, 10)) THEN 1 ELSE 0)
            + (IF large_bid_count > large_ask_count THEN 1 ELSE 0),
        bearish |->
            (IF ~(net_trade_flow > 0) /\ net_trade_flow < 0 THEN 3 ELSE 0)
            + (IF ~RatGT(buy_percentage, Rat(60, 1))
                  /\ RatLT(buy_percentage, Rat(40, 1)) THEN 2 ELSE 0)
            + (IF ~RatGT(buy_intensity, Rat(6, 10))
                  /\ RatLT(buy_intensity, Rat(4, 10)) THEN 2 ELSE 0)
            + (IF ~RatGT(imbalance, Rat(15, 10))
                  /\ RatLT(imbalance, ImbalanceLow) THEN 1 ELSE 0)
            + (IF ~(large_bid_count > large_ask_count)
                  /\ large_ask_count > large_bid_count THEN 1 ELSE 0)]

\* the label of the higher score, without a margin
generate_order_flow_signals_plain(flow_data) ==
    LET bullish_signals == SignalScores(flow_data).bullish
        bearish_signals == SignalScores(flow_data).bearish
    IN IF bullish_signals > bearish_signals THEN "BULLISH_FLOW"
       ELSE IF bearish_signals > bullish_signals THEN "BEARISH_FLOW"
       ELSE "NEUTRAL_FLOW"

\* the label with the margin compared by >= instead of >
generate_order_flow_signals_ge(flow_data) ==
    LET bullish_signals == SignalScores(flow_data).bullish
        bearish_signals == SignalScores(flow_data).bearish
    IN IF bullish_signals >= bearish_signals + SignalMargin THEN "BULLISH_FLOW"
       ELSE IF bearish_signals >= bullish_signals + SignalMargin THEN "BEARISH_FLOW"
       ELSE "NEUTRAL_FLOW"

generate_order_flow_signals(flow_data) ==
    LET bullish_signals == SignalScores(flow_data).bullish
        bearish_signals == SignalScores(flow_data).bearish
    IN IF bullish_signals > bearish_signals + SignalMargin THEN "BULLISH_FLOW"
       ELSE IF bearish_signals > bullish_signals + SignalMargin THEN "BEARISH_FLOW"
       ELSE "NEUTRAL_FLOW"

\* Python's None: what get_market_depth returns when the API call fails and
\* what process_order_flow returns then
None == EmptyDict

\* "if self.previous_traded_data:" / "if self.previous_book:" / "if not current_book"
Truthy(d) == DOMAIN d # {}

\* the snapshot a delta is computed against
PreviousTraded(security_id) == previous_traded_data

\* process_order_flow once get_market_depth has returned current_book
process_order_flow(security_id, current_book) ==
    IF ~Truthy(current_book)
    THEN /\ result' = None
         /\ UNCHANGED <<order_flow_history, previous_book, previous_traded_data>>
    ELSE LET current_traded == extract_traded_quantities(current_book, now)
             previous_traded == PreviousTraded(security_id)
             traded_delta ==
                 IF Truthy(previous_traded)
                 THEN calculate_traded_quantity_delta(current_traded, previous_traded)
                 ELSE EmptyDict
             order_delta ==
                 IF Truthy(previous_book)
                 THEN calculate_order_book_delta(current_book, previous_book)
                 ELSE EmptyDict
             ltp == IF Get(current_book, "ltp", 0) # 0
                    THEN current_book.ltp
                    ELSE Get(current_book, "last_price", 0)
             imbalance_ratio == calculate_imbalance_ratio(current_book)
             large_orders == detect_large_orders(current_book)
             signal == generate_order_flow_signals(
                           [traded_delta |-> traded_delta,
                            imbalance_ratio |-> imbalance_ratio,
                            large_orders |-> large_orders])
             flow_data ==
                 [timestamp |-> now,
                  security_id |-> security_id,
                  ltp |-> ltp,
                  traded_quantities |-> current_traded,
                  traded_delta |-> traded_delta,
                  imbalance_ratio |-> imbalance_ratio,
                  weighted_prices |-> calculate_weighted_prices(current_book),
                  large_orders |-> large_orders,
                  depth_analysis |-> analyze_depth_levels(current_book),
                  order_book_delta |-> order_delta,
                  signal |-> signal]
         IN /\ order_flow_history' = DequeAppend(order_flow_history, flow_data)
            /\ previous_book' = current_book
            /\ previous_traded_data' = current_traded
            /\ result' = flow_data

\* float addition; anything plus inf is inf
RatAdd(a, b) ==
    IF a[2] = 0 \/ b[2] = 0 THEN Inf
    ELSE Lowest(<<a[1] * b[2] + b[1] * a[2], a[2] * b[2]>>)

\* the records of the history at or after the cutoff
RecentDataInclusive(history, clock, lookback_minutes) ==
    LET cutoff_time == clock - lookback_minutes * 60
        Recent(data) == data.timestamp >= cutoff_time
    IN SelectSeq(history, Recent)

\* the records of the history newer than the cutoff, in history order
RecentData(history, clock, lookback_minutes) ==
    LET cutoff_time == clock - lookback_minutes * 60
        Recent(data) == data.timestamp > cutoff_time
    IN SelectSeq(history, Recent)

\* signal_counts after the loop over recent_data: a dict keeps its keys in
\* the order they were first set, so it is the sequence of its items
RECURSIVE SignalCounts(_, _)
SignalCounts(recent_data, signal_counts) ==
    IF recent_data = <<>> THEN signal_counts
    ELSE LET signal == Head(recent_data).signal
             known == {i \in DOMAIN signal_counts : signal_counts[i][1] = signal}
         IN SignalCounts(Tail(recent_data),
                IF known = {} THEN Append(signal_counts, <<signal, 1>>)
                ELSE [i \in DOMAIN signal_counts |->
                          IF i \in known
                          THEN <<signal, signal_counts[i][2] + 1>>
                          ELSE signal_counts[i]])

\* the last of the items with the largest count
MaxByCountLast(items) ==
    items[CHOOSE i \in DOMAIN items :
              /\ \A j \in DOMAIN items : items[j][2] <= items[i][2]
              /\ \A j \in DOMAIN items : j > i => items[j][2] < items[i][2]]

\* max(items, key=lambda x: x[1]): the first of the items with the largest
\* count
MaxByCount(items) ==
    items[CHOOSE i \in DOMAIN items :
              /\ \A j \in DOMAIN items : items[j][2] <= items[i][2]
              /\ \A j \in DOMAIN items : j < i => items[j][2] < items[i][2]]

RECURSIVE SumNetTradeFlow(_)
SumNetTradeFlow(recent_data) ==
    IF recent_data = <<>> THEN 0
    ELSE Get(Get(Head(recent_data), "traded_delta", EmptyDict),
             "net_trade_flow", 0)
         + SumNetTradeFlow(Tail(recent_data))

RECURSIVE SumBuyPercentage(_)
SumBuyPercentage(recent_data) ==
    IF recent_data = <<>> THEN Rat(0, 1)
    ELSE RatAdd(Get(Get(Head(recent_data), "traded_delta", EmptyDict),
                    "buy_percentage", Rat(50, 1)),
                SumBuyPercentage(Tail(recent_data)))

RECURSIVE SumImbalance(_)
SumImbalance(recent_data) ==
    IF recent_data = <<>> THEN Rat(0, 1)
    ELSE RatAdd(Head(recent_data).imbalance_ratio,
                SumImbalance(Tail(recent_data)))

\* a float divided by len(recent_data)
RatDiv(a, n) == Lowest(<<a[1], a[2] * n>>)

\* the value get_flow_summary returns; {} is the empty dict
FlowSummary(history, clock, lookback_minutes) ==
    LET recent_data == RecentData(history, clock, lookback_minutes)
        signal_counts == SignalCounts(recent_data, <<>>)
    IN IF recent_data = <<>> THEN EmptyDict
       ELSE [period_minutes |-> lookback_minutes,
             data_points |-> Len(recent_data),
             avg_imbalance_ratio |->
                 RatDiv(SumImbalance(recent_data), Len(recent_data)),
             total_net_trade_flow |-> SumNetTradeFlow(recent_data),
             avg_buy_percentage |->
                 RatDiv(SumBuyPercentage(recent_data), Len(recent_data)),
             signal_distribution |-> signal_counts,
             dominant_signal |-> IF signal_counts # <<>>
                                 THEN MaxByCount(signal_counts)[1]
                                 ELSE "NEUTRAL_FLOW"]

get_flow_summary(lookback_minutes) ==
    /\ summary_lookback' = lookback_minutes
    /\ summary' = FlowSummary(order_flow_history, now, lookback_minutes)
    /\ UNCHANGED <<feedVars, wsVars, analyzerVars, sigVars, clientVars,
                   loopVars, ws_pc, ws_message, resetVars, http_request,
                   http_response, df>>

ProcessOrderFlow(security_id, current_book) ==
    /\ process_order_flow(security_id, current_book)
    /\ UNCHANGED <<feedVars, wsVars, now, sigVars, sessionVars>>

\* datetime.now() advances
Tick ==
    /\ now' = now + 1
    /\ UNCHANGED <<feedVars, wsVars, order_flow_history, previous_book,
                   previous_traded_data, result, sigVars, sessionVars>>

\* a call of generate_order_flow_signals on the flow data given
GenerateSignal ==
    /\ sig_result' = generate_order_flow_signals(sig_flow_data)
    /\ UNCHANGED <<feedVars, wsVars, analyzerVars, sig_flow_data, sessionVars>>


----------------------------------------------------------------------------
(* flask_server.py: the query routes *)

\* the JSON response of a handler and its HTTP status
Response(status, body) == [status |-> status, body |-> body]

\* the request of a route
RequestOf(route, security_id, args) ==
    [route |-> route, security_id |-> security_id, args |-> args]

\* a handler that empties the table it has read
ReturnConsuming(request, response) ==
    /\ http_request' = request
    /\ http_response' = response
    /\ db' = <<>>
    /\ UNCHANGED <<live_market_data, orderflow_history, prev_ltp, wsVars,
                   analyzerVars, sigVars, clientVars, loopVars, ws_pc,
                   ws_message, resetVars, summary_lookback, summary>>

\* the handler returns its response; no handler writes anything else
Return(request, response) ==
    /\ http_request' = request
    /\ http_response' = response
    /\ UNCHANGED <<feedVars, wsVars, analyzerVars, sigVars, clientVars, loopVars,
                   ws_pc, ws_message, resetVars, summary_lookback, summary>>

\* the oldest event of the security's history
LiveDataOldest(security_id) ==
    LET history == Get(orderflow_history, security_id, <<>>)
    IN IF history # <<>> THEN Response(200, history[1])
       ELSE Response(404, [error |-> "No live data"])

\* get_live_data: the entry of live_market_data, or 404 when there is none
\* ("if data" is false of None and of an empty dict)
LiveData(security_id) ==
    LET data == Get(live_market_data, security_id, EmptyDict)
    IN IF Truthy(data) THEN Response(200, data)
       ELSE Response(404, [error |-> "No live data"])

get_live_data(security_id) ==
    /\ Return(RequestOf("live_data", security_id, EmptyDict),
              LiveData(security_id))
    /\ UNCHANGED df

get_orderflow_history(security_id) ==
    /\ Return(RequestOf("orderflow_history", security_id, EmptyDict),
              Response(200, Get(orderflow_history, security_id, <<>>)))
    /\ UNCHANGED df

\* int(s) of a string of decimal digits, given as its characters
IsDecimal(chars) ==
    /\ chars # <<>>
    /\ \A i \in DOMAIN chars : \E d \in 0..9 : Digits[d + 1] = chars[i]

RECURSIVE IntOf(_)
IntOf(chars) ==
    IF chars = <<>> THEN 0
    ELSE IntOf(SubSeq(chars, 1, Len(chars) - 1)) * 10
         + (CHOOSE d \in 0..9 : Digits[d + 1] = Last(chars))

\* the interval when the query string has none, or one int() rejects
DefaultInterval == 5

\* interval = int(request.args.get('interval', 5)), 5 on any exception
Interval(args) ==
    IF Has(args, "interval") /\ IsDecimal(args.interval)
    THEN IntOf(args.interval)
    ELSE DefaultInterval

\* The order of two timestamp texts written on one day: "<today> HH:MM:SS"
\* sorts by its time and before every "<today>THH:MM:SS.ffffff".
TextLE(a, b) == IF a[1] = b[1] THEN a[2] <= b[2] ELSE a[1] = "ltt"

\* the rows in rowid order, not sorted
OrderByRowid(rows) == rows

\* ORDER BY timestamp ASC; rows of equal timestamp stay in rowid order
RECURSIVE OrderByTimestamp(_)
OrderByTimestamp(rows) ==
    IF rows = <<>> THEN <<>>
    ELSE LET sorted == OrderByTimestamp(SubSeq(rows, 1, Len(rows) - 1))
             row == Last(rows)
             k == Cardinality({i \in DOMAIN sorted :
                                  TextLE(sorted[i].timestamp, row.timestamp)})
         IN SubSeq(sorted, 1, k) \o <<row>> \o SubSeq(sorted, k + 1, Len(sorted))

\* SELECT * FROM orderflow WHERE security_id = ? ORDER BY timestamp ASC
read_sql_query(rows, security_id) ==
    LET Selected(row) == row.security_id = security_id
    IN OrderByTimestamp(SelectSeq(rows, Selected))

\* what pd.to_datetime(..., errors='coerce') gives for a text it cannot parse
NaT == -1

\* the minutes of a day
MinutesOfDay == 0..1439

\* pd.to_datetime(text, format='%Y-%m-%d %H:%M:%S', errors='coerce'), as the
\* minute of the day: "<today> <LTT>" parses when LTT is a time of day, the
\* isoformat text ("T" between date and time, microseconds) does not
to_datetime(timestamp) ==
    IF timestamp[1] = "ltt" /\ timestamp[2] \in MinutesOfDay
    THEN timestamp[2]
    ELSE NaT

\* df.dropna(subset=['timestamp'])
dropna(frame) ==
    LET Parsed(row) == to_datetime(row.timestamp) # NaT
    IN SelectSeq(frame, Parsed)

\* bucket_label.strftime('%H:%M')
strftime(minute) == <<minute \div 60, minute % 60>>

\* the bin of pd.Grouper(freq='<interval>min'): bins start at midnight of
\* the first day and are closed on the left
BinOf(minute, interval) == (minute \div interval) * interval

\* the rows of a bin, in the order of df
Group(frame, interval, bin) ==
    LET InBin(row) == BinOf(to_datetime(row.timestamp), interval) = bin
    IN SelectSeq(frame, InBin)

RECURSIVE ColumnSum(_, _)
ColumnSum(group, column) ==
    IF group = <<>> THEN 0
    ELSE Head(group)[column] + ColumnSum(Tail(group), column)

ColumnMax(group, column) ==
    CHOOSE v \in {group[i][column] : i \in DOMAIN group} :
        \A i \in DOMAIN group : group[i][column] <= v

ColumnMin(group, column) ==
    CHOOSE v \in {group[i][column] : i \in DOMAIN group} :
        \A i \in DOMAIN group : group[i][column] >= v

\* the inference with a tick delta of 0 counted as buying
InferenceInclusive(tick_delta_sum) ==
    IF tick_delta_sum >= 0 THEN "Buy Dominant" ELSE "Sell Dominant"

\* the inference of a bucket from its summed tick delta (threshold 0)
Inference(tick_delta_sum) ==
    IF tick_delta_sum > 0 THEN "Buy Dominant"
    ELSE IF tick_delta_sum < 0 THEN "Sell Dominant"
    ELSE "Neutral"

\* the bucket of a group with the cumulative columns added up
MultiBucketSummed(bin, group) ==
    [timestamp |-> strftime(bin),
     buy_volume |-> ColumnSum(group, "buy_volume"),
     sell_volume |-> ColumnSum(group, "sell_volume"),
     delta |-> ColumnSum(group, "buy_volume") - ColumnSum(group, "sell_volume"),
     buy_initiated |-> ColumnSum(group, "buy_initiated"),
     sell_initiated |-> ColumnSum(group, "sell_initiated"),
     tick_delta |-> ColumnSum(group, "tick_delta"),
     inference |-> Inference(ColumnSum(group, "tick_delta")),
     open |-> group[1].ltp,
     high |-> ColumnMax(group, "ltp"),
     low |-> ColumnMin(group, "ltp"),
     close |-> Last(group).ltp]

\* the bucket of a group of two rows or more; the ltp column has no NULL,
\* marketfeed_thread stores response.get("LTP", 0)
MultiBucket(bin, group) ==
    LET start == group[1]
        end == Last(group)
        buy_delta == end.buy_volume - start.buy_volume
        sell_delta == end.sell_volume - start.sell_volume
        tick_delta_sum == ColumnSum(group, "tick_delta")
    IN [timestamp |-> strftime(bin),
        buy_volume |-> buy_delta,
        sell_volume |-> sell_delta,
        delta |-> buy_delta - sell_delta,
        buy_initiated |-> ColumnSum(group, "buy_initiated"),
        sell_initiated |-> ColumnSum(group, "sell_initiated"),
        tick_delta |-> tick_delta_sum,
        inference |-> Inference(tick_delta_sum),
        open |-> group[1].ltp,
        high |-> ColumnMax(group, "ltp"),
        low |-> ColumnMin(group, "ltp"),
        close |-> Last(group).ltp]

\* the bucket of one row with the row's own tick-rule fields
SingleBucketOwnTicks(bin, group) ==
    LET row == group[1]
    IN [timestamp |-> strftime(bin),
        buy_volume |-> 0,
        sell_volume |-> 0,
        delta |-> 0,
        buy_initiated |-> row.buy_initiated,
        sell_initiated |-> row.sell_initiated,
        tick_delta |-> row.tick_delta,
        inference |-> Inference(row.tick_delta),
        open |-> row.ltp,
        high |-> row.ltp,
        low |-> row.ltp,
        close |-> row.ltp]

\* the bucket of a group of one row
SingleBucket(bin, group) ==
    LET row == group[1]
    IN [timestamp |-> strftime(bin),
        buy_volume |-> 0,
        sell_volume |-> 0,
        delta |-> 0,
        buy_initiated |-> 0,
        sell_initiated |-> 0,
        tick_delta |-> 0,
        inference |-> "Neutral",
        open |-> row.ltp,
        high |-> row.ltp,
        low |-> row.ltp,
        close |-> row.ltp]

\* the loop over grouped: every bin from the first to the last, in
\* increasing order; an empty group appends nothing
RECURSIVE Buckets(_, _, _, _)
Buckets(frame, interval, bin, last) ==
    IF bin > last THEN <<>>
    ELSE LET group == Group(frame, interval, bin)
             rest == Buckets(frame, interval, bin + interval, last)
         IN IF Len(group) >= 2 THEN <<MultiBucket(bin, group)>> \o rest
            ELSE IF Len(group) = 1 THEN <<SingleBucket(bin, group)>> \o rest
            ELSE rest

\* the body get_delta_data returns for the rows it has read
DeltaData(rows, args) ==
    LET interval == Interval(args)
        frame == dropna(rows)
        minutes == {to_datetime(frame[i].timestamp) : i \in DOMAIN frame}
        first == CHOOSE m \in minutes : \A n \in minutes : m <= n
        last == CHOOSE m \in minutes : \A n \in minutes : m >= n
    IN IF frame = <<>> THEN <<>>
       ELSE Buckets(frame, interval, BinOf(first, interval),
                    BinOf(last, interval))

get_delta_data(security_id, args) ==
    /\ df' = read_sql_query(db, security_id)
    /\ Return(RequestOf("delta_data", security_id, args),
              Response(200, DeltaData(df', args)))


----------------------------------------------------------------------------
(* Inputs *)

SecurityIds == {1, 2}

\* events market_feed.get_data() returns: Quote packets and Ticker packets
QuoteResponses ==
    [type : {"Quote Data"}, security_id : SecurityIds, LTP : {99, 100, 101},
     LTQ : {-20, 0, 20}, LTT : {556}, total_buy_quantity : {0},
     total_sell_quantity : {0}, volume : {0}]

TickerResponses ==
    [type : {"Ticker Data"}, security_id : SecurityIds, LTP : {100}, LTT : {556}]

Responses == QuoteResponses \cup TickerResponses

\* an event that carries only the required key
BareResponse == [security_id |-> 1]

\* Quote events of one security
SessionResponses ==
    [type : {"Quote Data"}, security_id : {1}, LTP : {100, 101}, LTQ : {20},
     LTT : {556}, total_buy_quantity : {0}, total_sell_quantity : {0},
     volume : {0}]

\* struct.pack, big endian
PackH(n) == <<(n \div 256) % 256, n % 256>>

Packh(n) == IF n < 0 THEN PackH(n + 65536) ELSE PackH(n)

PackI(n) ==
    <<(n \div 16777216) % 256, (n \div 65536) % 256, (n \div 256) % 256, n % 256>>

Header(code, msg_len, security_id) ==
    <<code>> \o PackH(msg_len) \o <<2>> \o PackI(security_id)

QuoteFrame(security_id, ltp, ltq) ==
    Header(4, 50, security_id) \o PackI(ltp) \o Packh(ltq) \o PackI(556)
    \o PackI(ltp) \o PackI(300) \o PackI(100) \o PackI(200)
    \o PackI(ltp) \o PackI(ltp) \o PackI(ltp) \o PackI(ltp)

TickerFrame(security_id, ltp) ==
    Header(2, 16, security_id) \o PackI(ltp) \o PackI(556)

OIFrame(security_id, oi) == Header(5, 12, security_id) \o PackI(oi)

\* a frame of a code on_message does not handle (6: previous close), 16 bytes
OtherFrame(security_id) == Header(6, 16, security_id) \o PackI(7) \o PackI(8)

Q1 == QuoteFrame(1, 1120403456, 10)
Q2 == QuoteFrame(2, 1120534528, -3)

\* buffers received from the socket: single frames, several frames in one
\* buffer, a frame split over two buffers, truncated and unknown frames
DecodeMessages ==
    {Q1, Q2, TickerFrame(1, 1120403456), OIFrame(2, 77), OtherFrame(1),
     Q1 \o Q2, TickerFrame(2, 1120403456) \o Q1,
     Q1 \o SubSeq(Q2, 1, 20), SubSeq(Q2, 21, 50),
     OtherFrame(1) \o Q2, SubSeq(Q1, 1, 30), SubSeq(Q1, 1, 5),
     <<>>, SubSeq(Q1, 1, 8), SubSeq(Q1, 1, 49),
     SubSeq(TickerFrame(1, 1120403456), 1, 15), SubSeq(OIFrame(2, 77), 1, 11)}

SpecMessages == {Q1, OtherFrame(1) \o Q2}

\* events of the three supported codes; a float32 is its bit pattern
QuoteEvents ==
    [code : {4}, segment : {2}, security_id : {1, 2},
     ltp : {1120403456, 1120534528}, last_traded_qty : {-3, 0, 300},
     ltt : {556}, atp : {1120468992}, volume : {300}, sell_qty : {100},
     buy_qty : {200, 70000}, day_open : {1120272384}, day_close : {1120337920},
     day_high : {1120600064}, day_low : {1120206848}]

TickerEvents ==
    [code : {2}, segment : {2}, security_id : {1, 2},
     ltp : {1120403456, 1120534528}, ltt : {556, 70000}]

OIEvents == [code : {5}, segment : {2}, security_id : {1, 2}, oi : {77, 70000}]

Events == QuoteEvents \cup TickerEvents \cup OIEvents

\* the frame of an event: the 8-byte header, then the payload of its code
encode(event) ==
    <<event.code>>
    \o PackH(CASE event.code = 4 -> 50 [] event.code = 2 -> 16 [] OTHER -> 12)
    \o <<event.segment>> \o PackI(event.security_id)
    \o (CASE event.code = 4 ->
              PackI(event.ltp) \o Packh(event.last_traded_qty) \o PackI(event.ltt)
              \o PackI(event.atp) \o PackI(event.volume) \o PackI(event.sell_qty)
              \o PackI(event.buy_qty) \o PackI(event.day_open)
              \o PackI(event.day_close) \o PackI(event.day_high)
              \o PackI(event.day_low)
           [] event.code = 2 -> PackI(event.ltp) \o PackI(event.ltt)
           [] OTHER -> PackI(event.oi))

Depth(bids, asks) ==
    [buy |-> [i \in 1..Len(bids) |-> [price |-> 100 - i, quantity |-> bids[i]]],
     sell |-> [i \in 1..Len(asks) |-> [price |-> 100 + i, quantity |-> asks[i]]]]

Depths == {Depth(<<>>, <<>>), Depth(<<10, 10, 100>>, <<10, 10, 10>>)}

Books ==
    [buy_quantity : {50, 10000}, sell_quantity : {0, 50}, volume : {50, 100},
     last_price : {100}, depth : Depths]

\* an instrument list of n entries
Instruments(n) ==
    [i \in 1..n |-> [ExchangeSegment |-> "NSE_FNO", SecurityId |-> StrOf(i)]]

\* what get_flow_summary reads of a history record: the record of a first
\* snapshot (no delta), of a buying interval and of a selling interval, with
\* the signal generate_order_flow_signals gives it
SummaryData ==
    {[traded_delta |-> EmptyDict, imbalance_ratio |-> Rat(1, 1)],
     [traded_delta |-> [net_trade_flow |-> 500, buy_percentage |-> Rat(100, 1)],
      imbalance_ratio |-> Rat(2, 1)],
     [traded_delta |-> [net_trade_flow |-> -300, buy_percentage |-> Rat(0, 1)],
      imbalance_ratio |-> Rat(1, 2)]}

\* the clock when the summary is asked for, and the timestamps of a record:
\* on the 30-minute cutoff and one second after it
SummaryNow == 3600

SummaryTimes == {SummaryNow - 1800, SummaryNow - 1799}

SummaryRecords ==
    {[timestamp |-> t, traded_delta |-> d.traded_delta,
      imbalance_ratio |-> d.imbalance_ratio,
      signal |-> generate_order_flow_signals(d)] :
        t \in SummaryTimes, d \in SummaryData}

\* histories in chronological order
Histories ==
    UNION {{h \in [1..n -> SummaryRecords] :
               \A i \in 1..(n - 1) : h[i].timestamp <= h[i + 1].timestamp} :
           n \in 0..MaxRecords}

\* the <<LTP, total_buy_quantity, total_sell_quantity>> of a Quote event:
\* a price with its cumulative quantities, a higher price with higher
\* quantities, and the first price with still higher quantities
Snapshots == {<<100, 10, 5>>, <<101, 30, 15>>, <<100, 40, 20>>}

\* the LTT of a Quote event, as the minute of the day of its "HH:MM:SS":
\* 09:16, 09:17 and 09:21
TradeTimes == {556, 557, 561}

QuoteOf(security_id, snapshot, ltt) ==
    [type |-> "Quote Data", security_id |-> security_id, LTP |-> snapshot[1],
     LTQ |-> 20, LTT |-> ltt, total_buy_quantity |-> snapshot[2],
     total_sell_quantity |-> snapshot[3],
     volume |-> snapshot[2] + snapshot[3]]

\* Quote events of security 1 for the delta-data query, one of them without
\* LTT (LTT = 0), and a Quote event of security 2
BucketResponses ==
    {QuoteOf(1, snapshot, ltt) : snapshot \in Snapshots, ltt \in TradeTimes}
    \cup {QuoteOf(1, <<100, 10, 5>>, 0), QuoteOf(2, <<100, 10, 5>>, 556)}

\* the security ids asked for: two with events and one without
QueryIds == {"1", "2", "3"}

\* the query strings of a delta-data request: none, interval=1, interval=x
QueryArgs == {EmptyDict, [interval |-> <<"1">>], [interval |-> <<"x">>]}

\* the delta-data requests: security 1 with every query string, the others
\* with none
DeltaRequests ==
    {<<"1", args>> : args \in QueryArgs}
    \cup {<<security_id, EmptyDict>> : security_id \in QueryIds}

\* events of the feed for the routes: Quote events of security 1 and Ticker
\* events of both securities
RouteResponses == SessionResponses \cup TickerResponses

\* datetime.now() during the session, in seconds of the day: 09:16:40
QueryNow == 33400

Rationals(nums, den) == {Rat(n, den) : n \in nums}

SignalInputs ==
    [traded_delta : [net_trade_flow : {-500, 0, 500},
                     buy_percentage : Rationals({39, 40, 50, 60, 65}, 1),
                     buy_intensity : Rationals({3, 4, 5, 6, 7}, 10)],
     imbalance_ratio : Rationals({500, 667, 668, 670, 1000, 1500, 1800}, 1000)
                       \cup {Inf},
     large_orders : [large_bid_count : {0, 1}, large_ask_count : {0, 1}]]
    \cup
    [traded_delta : {EmptyDict},
     imbalance_ratio : Rationals({500, 1000, 1800}, 1000),
     large_orders : [large_bid_count : {0, 1}, large_ask_count : {0, 1}]]

----------------------------------------------------------------------------
(* Specifications *)

\* the feed thread at the top of its loop, no on_message running, no reset
\* and no summary yet
InitThreads ==
    /\ feed_pc = "run_forever"
    /\ feed_conn = "none"
    /\ feed_response = EmptyDict
    /\ ws_pc = "idle"
    /\ ws_message = <<>>
    /\ delta_history = EmptyDict
    /\ last_reset_date = 0
    /\ summary_lookback = 0
    /\ summary = EmptyDict
    /\ http_request = EmptyDict
    /\ http_response = EmptyDict
    /\ df = <<>>

\* no client started
InitSession ==
    /\ instrument_list = <<>>
    /\ ws_conns = <<>>
    /\ InitThreads

Init ==
    /\ InitSession
    /\ live_market_data = EmptyDict
    /\ orderflow_history = EmptyDict
    /\ prev_ltp = EmptyDict
    /\ db = <<>>
    /\ data_store = EmptyDict
    /\ ws_out = <<>>
    /\ ws_received = <<>>
    /\ ws_raised = FALSE
    /\ order_flow_history = <<>>
    /\ previous_book = None
    /\ previous_traded_data = None
    /\ result = None
    /\ now = 0
    /\ sig_flow_data = EmptyDict
    /\ sig_result = ""

RECURSIVE TotalLen(_, _)
TotalLen(d, keys) ==
    IF keys = {} THEN 0
    ELSE LET k == CHOOSE x \in keys : TRUE
         IN Len(d[k]) + TotalLen(d, keys \ {k})

\* a pass of the inner loop of marketfeed_thread, taken as one step
Feed == \E response \in Responses :
    /\ Len(db) < MaxEvents
    /\ TotalLen(orderflow_history, DOMAIN orderflow_history) < MaxEvents
    /\ FeedEvent(response)

Receive == \E message \in SpecMessages :
    /\ Len(ws_received) < MaxMessages
    /\ TotalLen(orderflow_history, DOMAIN orderflow_history) < MaxEvents
    /\ on_message(message)

Next == Feed \/ Receive

Spec == Init /\ [][Next]_vars

\* the websocket client alone, on every kind of buffer
Decode == \E message \in DecodeMessages :
    /\ Len(ws_received) < MaxMessages
    /\ on_message(message)

SpecDecode == Init /\ [][Decode]_vars

\* the websocket client on the frames of encoded events
Codec == \E event \in Events :
    /\ Len(ws_received) < MaxMessages
    /\ on_message(encode(event))

SpecCodec == Init /\ [][Codec]_vars

\* a client constructed with an instrument list of any length, started,
\* opened and closed
InitClient ==
    /\ live_market_data = EmptyDict
    /\ orderflow_history = EmptyDict
    /\ prev_ltp = EmptyDict
    /\ db = <<>>
    /\ data_store = EmptyDict
    /\ ws_out = <<>>
    /\ ws_received = <<>>
    /\ ws_raised = FALSE
    /\ order_flow_history = <<>>
    /\ previous_book = None
    /\ previous_traded_data = None
    /\ result = None
    /\ now = 0
    /\ sig_flow_data = EmptyDict
    /\ sig_result = ""
    /\ instrument_list \in {Instruments(n) : n \in 0..MaxInstruments}
    /\ ws_conns = <<>>
    /\ InitThreads

Start == Len(ws_conns) < MaxRuns /\ run

Open == \E c \in DOMAIN ws_conns : on_open(c)

Close == \E c \in DOMAIN ws_conns : on_close(c)

NextClient == Start \/ Open \/ Close

SpecClient == InitClient /\ [][NextClient]_vars

\* the feed thread and the callback thread of the websocket client running
\* concurrently, statement by statement, on a connected feed
InitThreadsConnected ==
    /\ live_market_data = EmptyDict
    /\ orderflow_history = EmptyDict
    /\ prev_ltp = EmptyDict
    /\ db = <<>>
    /\ data_store = EmptyDict
    /\ ws_out = <<>>
    /\ ws_received = <<>>
    /\ ws_raised = FALSE
    /\ order_flow_history = <<>>
    /\ previous_book = None
    /\ previous_traded_data = None
    /\ result = None
    /\ now = 0
    /\ sig_flow_data = EmptyDict
    /\ sig_result = ""
    /\ instrument_list = <<>>
    /\ ws_conns = <<>>
    /\ feed_pc = "get_data"
    /\ feed_conn = "open"
    /\ feed_response = EmptyDict
    /\ ws_pc = "idle"
    /\ ws_message = <<>>
    /\ delta_history = EmptyDict
    /\ last_reset_date = 0
    /\ summary_lookback = 0
    /\ summary = EmptyDict
    /\ http_request = EmptyDict
    /\ http_response = EmptyDict
    /\ df = <<>>

FeedStart == \E response \in SessionResponses :
    /\ Len(db) < MaxEvents - 1
    /\ FeedGet(response)

WsReceive == \E message \in SpecMessages :
    /\ Len(ws_received) < MaxMessages
    /\ WsStart(message)

NextThreads ==
    \/ FeedStart \/ FeedL106 \/ FeedL107 \/ FeedL108 \/ FeedL109 \/ FeedL110
    \/ WsReceive \/ WsL699 \/ WsL700 \/ WsL701 \/ WsL702

SpecThreads == InitThreadsConnected /\ [][NextThreads]_vars

\* get_flow_summary on a history
InitSummary ==
    /\ live_market_data = EmptyDict
    /\ orderflow_history = EmptyDict
    /\ prev_ltp = EmptyDict
    /\ db = <<>>
    /\ data_store = EmptyDict
    /\ ws_out = <<>>
    /\ ws_received = <<>>
    /\ ws_raised = FALSE
    /\ order_flow_history \in Histories
    /\ previous_book = None
    /\ previous_traded_data = None
    /\ result = None
    /\ now = SummaryNow
    /\ sig_flow_data = EmptyDict
    /\ sig_result = ""
    /\ InitSession

Summarize == \E lookback_minutes \in {30, 60} :
    get_flow_summary(lookback_minutes)

SpecSummary == InitSummary /\ [][Summarize]_vars

\* the feed loop and the daily reset
Reset == \E today \in 1..MaxDays, hhmm \in {<<9, 14>>, <<9, 15>>, <<10, 0>>} :
    maybe_reset_history(today, hhmm)

NextReset == Feed \/ Reset

SpecReset == Init /\ [][NextReset]_vars

\* the feed thread of flask_server.py and a DhanWebSocketClient, with their
\* connections failing at any time
InitLoop ==
    /\ live_market_data = EmptyDict
    /\ orderflow_history = EmptyDict
    /\ prev_ltp = EmptyDict
    /\ db = <<>>
    /\ data_store = EmptyDict
    /\ ws_out = <<>>
    /\ ws_received = <<>>
    /\ ws_raised = FALSE
    /\ order_flow_history = <<>>
    /\ previous_book = None
    /\ previous_traded_data = None
    /\ result = None
    /\ now = 0
    /\ sig_flow_data = EmptyDict
    /\ sig_result = ""
    /\ instrument_list = Instruments(2)
    /\ ws_conns = <<>>
    /\ InitThreads

GetData == \E response \in SessionResponses :
    /\ feed_pc = "get_data"
    /\ TotalLen(orderflow_history, DOMAIN orderflow_history) < MaxEvents
    /\ FeedEvent(response)

StoreRaises == \E response \in SessionResponses :
    /\ feed_pc = "get_data"
    /\ TotalLen(orderflow_history, DOMAIN orderflow_history) < MaxEvents
    /\ FeedEventStoreRaises(response)

NextSession ==
    \/ RunForeverReturns \/ RunForeverRaises \/ GetData \/ GetDataRaises
    \/ StoreRaises \/ Backoff \/ Start \/ Open \/ Close

\* both threads keep running; a connection attempt that is repeated for ever
\* succeeds in the end
SpecSession ==
    /\ InitLoop
    /\ [][NextSession]_vars
    /\ WF_vars(Backoff)
    /\ WF_vars(RunForeverReturns \/ RunForeverRaises)
    /\ SF_vars(RunForeverReturns)
    /\ WF_vars(Open \/ Close)

\* the analyzer polled for several securities
Analyze == \E security_id \in {"1", "2"}, current_book \in Books \cup {None} :
    /\ Len(order_flow_history) < MaxSnapshots
    /\ ProcessOrderFlow(security_id, current_book)

ClockTick == now < MaxClock /\ Tick

NextAnalyzer == Analyze \/ ClockTick

SpecAnalyzer == Init /\ [][NextAnalyzer]_vars

\* generate_order_flow_signals as a function of its argument
InitSignal ==
    /\ InitSession
    /\ live_market_data = EmptyDict
    /\ orderflow_history = EmptyDict
    /\ prev_ltp = EmptyDict
    /\ db = <<>>
    /\ data_store = EmptyDict
    /\ ws_out = <<>>
    /\ ws_received = <<>>
    /\ ws_raised = FALSE
    /\ order_flow_history = <<>>
    /\ previous_book = None
    /\ previous_traded_data = None
    /\ result = None
    /\ now = 0
    /\ sig_flow_data \in SignalInputs
    /\ sig_result = ""

Score == sig_result = "" /\ GenerateSignal

SpecSignal == InitSignal /\ [][Score]_vars

\* one security fed until its history passes the capacity of the ring
FeedOne ==
    /\ TotalLen(orderflow_history, DOMAIN orderflow_history) < maxlen + HistOverflow
    /\ FeedEvent(BareResponse)

SpecHist == Init /\ [][FeedOne]_vars

\* the feed thread persisting Quote events while the routes are queried
InitQuery ==
    /\ InitSession
    /\ live_market_data = EmptyDict
    /\ orderflow_history = EmptyDict
    /\ prev_ltp = EmptyDict
    /\ db = <<>>
    /\ data_store = EmptyDict
    /\ ws_out = <<>>
    /\ ws_received = <<>>
    /\ ws_raised = FALSE
    /\ order_flow_history = <<>>
    /\ previous_book = None
    /\ previous_traded_data = None
    /\ result = None
    /\ now = QueryNow
    /\ sig_flow_data = EmptyDict
    /\ sig_result = ""

FeedQuote == \E response \in BucketResponses :
    /\ TotalLen(orderflow_history, DOMAIN orderflow_history) < MaxRows
    /\ FeedEvent(response)

DeltaQuery == \E request \in DeltaRequests :
    get_delta_data(request[1], request[2])

NextQuery == FeedQuote \/ DeltaQuery

\* the feed thread storing events while the three routes are asked
FeedRoute == \E response \in RouteResponses :
    /\ TotalLen(orderflow_history, DOMAIN orderflow_history) < MaxEvents
    /\ FeedEvent(response)

LiveQuery == \E security_id \in QueryIds : get_live_data(security_id)

HistoryQuery == \E security_id \in QueryIds : get_orderflow_history(security_id)

DeltaDefaultQuery == \E security_id \in QueryIds :
    get_delta_data(security_id, EmptyDict)

NextRoutes == FeedRoute \/ LiveQuery \/ HistoryQuery \/ DeltaDefaultQuery

SpecRoutes == InitQuery /\ [][NextRoutes]_vars

SpecQuery == InitQuery /\ [][NextQuery]_vars


----------------------------------------------------------------------------
(* Claims *)

\* C3: no instrument ever holds more than 1000 history records, in the
\* analyzer's history and in the per-security in-memory history alike.
C3_HistoryBounded ==
    /\ Len(order_flow_history) <= 1000
    /\ \A security_id \in DOMAIN orderflow_history :
           Len(orderflow_history[security_id]) <= 1000


\* the Quote events of a security, in arrival order, and its persisted rows
IsQuote(response) == Get(response, "type", "") = "Quote Data"

QuoteEventsOf(security_id) ==
    SelectSeq(Get(orderflow_history, security_id, <<>>), IsQuote)

RowsOf(security_id) ==
    LET Mine(row) == row.security_id = security_id IN SelectSeq(db, Mine)

\* the tick rule as the claim states it: it applies when the quantity is > 0
StatedTick(hasPrev, prev, ltp, ltq) ==
    IF hasPrev /\ ltq > 0 /\ ltp > prev THEN <<ltq, 0>>
    ELSE IF hasPrev /\ ltq > 0 /\ ltp < prev THEN <<0, ltq>>
    ELSE <<0, 0>>

\* C4: every Quote event is classified by the tick rule against the previous
\* price of its security: a rise gives buy_initiated = qty, a fall gives
\* sell_initiated = qty, and no previous price, an equal price or a quantity
\* that is not greater than 0 gives 0 and 0.
C4_TickRuleAsStated ==
    \A security_id \in DOMAIN orderflow_history :
        LET events == QuoteEventsOf(security_id)
            rows == RowsOf(security_id)
        IN /\ Len(rows) = Len(events)
           /\ \A i \in 1..Len(rows) :
                  LET stated == StatedTick(i > 1,
                                    IF i > 1 THEN events[i - 1].LTP ELSE 0,
                                    events[i].LTP, Get(events[i], "LTQ", 0))
                  IN /\ rows[i].buy_initiated = stated[1]
                     /\ rows[i].sell_initiated = stated[2]
                     /\ rows[i].tick_delta = stated[1] - stated[2]

\* C5: the tick fields of a Quote event of security S are those the tick rule
\* gives against the price of S's own preceding Quote event, and the stored
\* previous price of S is always the price of S's own latest Quote event,
\* whatever events of other securities arrived in between.
C5_PreviousPricePerSecurity ==
    \A security_id \in DOMAIN orderflow_history \cup DOMAIN prev_ltp :
        LET events == QuoteEventsOf(security_id)
            rows == RowsOf(security_id)
        IN /\ Len(rows) = Len(events)
           /\ Has(prev_ltp, security_id) <=> events # <<>>
           /\ events # <<>> => prev_ltp[security_id] = Last(events).LTP
           /\ \A i \in 1..Len(rows) :
                  LET tick == TickRule(i > 1,
                                  IF i > 1 THEN events[i - 1].LTP ELSE 0,
                                  events[i].LTP, Get(events[i], "LTQ", 0))
                  IN /\ rows[i].buy_initiated = tick.buy_initiated
                     /\ rows[i].sell_initiated = tick.sell_initiated

\* C5 witness: security 1 at 100, then security 2 at 101, then security 1 at
\* 101 is classified as a rise against 100.
C5_Interleaved ==
    /\ Len(db) = 3
    /\ db[1].security_id = "1" /\ db[1].ltp = 100
    /\ db[2].security_id = "2" /\ db[2].ltp = 101
    /\ db[3].security_id = "1" /\ db[3].ltp = 101
    /\ db[3].buy_initiated = 20


\* the records of the analyzer's history for which a delta was computed
WithDelta == {i \in 1..Len(order_flow_history) :
                 Truthy(order_flow_history[i].traded_delta)}

\* C1: a cumulative field lower than in the previous snapshot gives a delta
\* equal to the current value, so buy_qty_delta, sell_qty_delta and
\* volume_delta are never negative.
C1_DeltaNeverNegative ==
    \A i \in WithDelta :
        LET delta == order_flow_history[i].traded_delta
            current == order_flow_history[i].traded_quantities
        IN /\ delta.buy_qty_delta >= 0
           /\ delta.sell_qty_delta >= 0
           /\ delta.volume_delta >= 0
           /\ i > 1 /\ current.buy_quantity
                         < order_flow_history[i - 1].traded_quantities.buy_quantity
                  => delta.buy_qty_delta = current.buy_quantity

\* the latest record before i of the same security, 0 when there is none
EarlierOfSame(i) ==
    LET same == {j \in 1..(i - 1) : order_flow_history[j].security_id
                                       = order_flow_history[i].security_id}
    IN IF same = {} THEN 0 ELSE CHOOSE j \in same : \A k \in same : k <= j

\* C2: the delta of an event of security S is computed against the most
\* recent earlier snapshot of S, and there is none when S has no earlier
\* snapshot, whatever other securities were processed in between.
C2_DeltaAgainstSameSecurity ==
    \A i \in 1..Len(order_flow_history) :
        LET j == EarlierOfSame(i)
            record == order_flow_history[i]
        IN IF j = 0 THEN record.traded_delta = EmptyDict
           ELSE record.traded_delta =
                    calculate_traded_quantity_delta(record.traded_quantities,
                        order_flow_history[j].traded_quantities)

\* C7: buy_qty_delta + sell_qty_delta equals volume_delta wherever deltas
\* are computed.
C7_DeltasSumToVolume ==
    \A i \in WithDelta :
        LET delta == order_flow_history[i].traded_delta
        IN delta.buy_qty_delta + delta.sell_qty_delta = delta.volume_delta

VolumeIsBuyPlusSell(traded) ==
    traded.total_volume = traded.buy_quantity + traded.sell_quantity

\* C7 as amended: interval_volume is always buy_qty_delta + sell_qty_delta,
\* and it equals volume_delta when the total volume of both snapshots is the
\* sum of their buy and sell quantities.
C7_DeltasSumToVolumeWhenConsistent ==
    \A i \in WithDelta :
        LET delta == order_flow_history[i].traded_delta
        IN /\ delta.interval_volume = delta.buy_qty_delta + delta.sell_qty_delta
           /\ i > 1
              /\ VolumeIsBuyPlusSell(order_flow_history[i].traded_quantities)
              /\ VolumeIsBuyPlusSell(order_flow_history[i - 1].traded_quantities)
              => delta.buy_qty_delta + delta.sell_qty_delta = delta.volume_delta

\* C7 witness: two consistent snapshots, 50 sold in between
C7_ConsistentPair ==
    /\ Len(order_flow_history) = 2
    /\ 2 \in WithDelta
    /\ VolumeIsBuyPlusSell(order_flow_history[1].traded_quantities)
    /\ VolumeIsBuyPlusSell(order_flow_history[2].traded_quantities)
    /\ order_flow_history[2].traded_delta.volume_delta = 50
    /\ order_flow_history[2].traded_delta.sell_qty_delta = 50

\* C8: buy_percentage is buy_qty_delta / (buy_qty_delta + sell_qty_delta) * 100
\* whenever that sum is not 0 and the default 50 when it is 0; buy_intensity
\* is buy_qty_delta / volume_delta whenever volume_delta is not 0 and the
\* default 0.5 when it is 0; net_trade_flow is buy_qty_delta - sell_qty_delta.
C8_DefaultsOnlyAtZero ==
    \A i \in WithDelta :
        LET delta == order_flow_history[i].traded_delta
            sum == delta.buy_qty_delta + delta.sell_qty_delta
        IN /\ delta.net_trade_flow = delta.buy_qty_delta - delta.sell_qty_delta
           /\ sum # 0 => RatEq(delta.buy_percentage,
                               Rat(delta.buy_qty_delta * 100, sum))
           /\ sum = 0 => RatEq(delta.buy_percentage, Rat(50, 1))
           /\ delta.volume_delta # 0
                  => RatEq(delta.buy_intensity,
                           Rat(delta.buy_qty_delta, delta.volume_delta))
           /\ delta.volume_delta = 0 => RatEq(delta.buy_intensity, Rat(1, 2))


\* 1 when the condition holds, else 0
Points(condition, weight) == IF condition THEN weight ELSE 0

\* the additive scoring as the claim states it, with the lower imbalance
\* threshold as a parameter (in thousandths)
StatedScores(flow_data, low) ==
    LET delta == flow_data.traded_delta
        net == Get(delta, "net_trade_flow", 0)
        percentage == Get(delta, "buy_percentage", Rat(50, 1))
        intensity == Get(delta, "buy_intensity", Rat(1, 2))
        imbalance == flow_data.imbalance_ratio
        bids == flow_data.large_orders.large_bid_count
        asks == flow_data.large_orders.large_ask_count
    IN [bullish |-> Points(net > 0, 3)
                    + Points(RatGT(percentage, Rat(60, 1)), 2)
                    + Points(RatGT(intensity, Rat(6, 10)), 2)
                    + Points(RatGT(imbalance, Rat(15, 10)), 1)
                    + Points(bids > asks, 1),
        bearish |-> Points(net < 0, 3)
                    + Points(RatLT(percentage, Rat(40, 1)), 2)
                    + Points(RatLT(intensity, Rat(4, 10)), 2)
                    + Points(RatLT(imbalance, Rat(low, 1000)), 1)
                    + Points(bids < asks, 1)]

StatedLabel(scores) ==
    CASE scores.bullish - scores.bearish > 2 -> "BULLISH_FLOW"
      [] scores.bearish - scores.bullish > 2 -> "BEARISH_FLOW"
      [] OTHER -> "NEUTRAL_FLOW"

\* C6: the label returned is the one the additive scoring gives, with the
\* imbalance ratio scoring for the bearish side below 0.667.
C6_LabelAsStated ==
    sig_result # "" => sig_result = StatedLabel(StatedScores(sig_flow_data, 667))

\* C6 as amended: the same scoring with the imbalance ratio scoring for the
\* bearish side below 0.67, in the scores and in the label.
C6_LabelWithThreshold067 ==
    sig_result # "" =>
        /\ SignalScores(sig_flow_data) = StatedScores(sig_flow_data, 670)
        /\ sig_result = StatedLabel(StatedScores(sig_flow_data, 670))

\* C6 witness: (+500, 65, 0.7, 1.8, bid > ask) scores 9 against 0
C6_Scenario ==
    /\ sig_flow_data = [traded_delta |-> [net_trade_flow |-> 500,
                                          buy_percentage |-> Rat(65, 1),
                                          buy_intensity |-> Rat(7, 10)],
                        imbalance_ratio |-> Rat(1800, 1000),
                        large_orders |-> [large_bid_count |-> 1,
                                          large_ask_count |-> 0]]
    /\ SignalScores(sig_flow_data) = [bullish |-> 9, bearish |-> 0]
    /\ sig_result = "BULLISH_FLOW"


\* all bytes received so far, as one stream
RECURSIVE Concat(_)
Concat(messages) ==
    IF messages = <<>> THEN <<>> ELSE Head(messages) \o Concat(Tail(messages))

\* the frame length of each supported code
FrameLength(code) ==
    CASE code = 4 -> 50 [] code = 2 -> 16 [] code = 5 -> 12 [] OTHER -> 8

EventKind(code) ==
    CASE code = 4 -> "updated" [] code = 2 -> "ticker" [] OTHER -> "oi"

\* the decoding the claims state, frame by frame over the bytes received: a
\* partial trailing frame waits for the next buffer; a frame of another code,
\* or one shorter than the length of its code, counts as an error and is
\* skipped by its declared length (the rest is dropped when that length is
\* not even a header)
RECURSIVE StatedDecode(_, _)
StatedDecode(buffer, done) ==
    IF Len(buffer) < 8 THEN done
    ELSE LET code == UnpackB(Slice(buffer, 0, 1))
             msg_len == UnpackH(Slice(buffer, 1, 3))
             security == Slice(buffer, 4, 8)
             rest == SubSeq(buffer, msg_len + 1, Len(buffer))
         IN IF msg_len < 8
            THEN [done EXCEPT !.errors = @ + 1]
            ELSE IF Len(buffer) < msg_len THEN done
            ELSE IF code \notin {2, 4, 5} \/ msg_len < FrameLength(code)
            THEN StatedDecode(rest, [done EXCEPT !.errors = @ + 1])
            ELSE StatedDecode(rest,
                     [done EXCEPT !.events =
                          Append(@, <<EventKind(code), security>>)])

Stated == StatedDecode(Concat(ws_received), [events |-> <<>>, errors |-> 0])

\* the frames found are frames of the subscribed securities
KnownSecurities ==
    \A i \in 1..Len(Stated.events) :
        \E id \in SecurityIds : Stated.events[i][2] = PackI(id)

\* the events on_message produced, in order, each with the four bytes of its
\* security id, and the errors it reported
IsEventLine(line) == line[1] \in {"updated", "ticker", "oi"}

IsErrorLine(line) == line[1] = "unhandled"

RECURSIVE EventsOf(_)
EventsOf(lines) ==
    IF lines = <<>> THEN <<>>
    ELSE (IF IsEventLine(Head(lines))
          THEN <<<<Head(lines)[1], PackI(Head(lines)[2])>>>> ELSE <<>>)
         \o EventsOf(Tail(lines))

\* a is b with some elements left out
RECURSIVE IsSubSeq(_, _)
IsSubSeq(a, b) ==
    IF a = <<>> THEN TRUE
    ELSE IF b = <<>> THEN FALSE
    ELSE IF Head(a) = Head(b) THEN IsSubSeq(Tail(a), Tail(b))
    ELSE IsSubSeq(a, Tail(b))

\* C9: when the buffers received hold only complete supported frames and a
\* partial trailing frame, every complete frame gives its event, in buffer
\* order, a frame split across two buffers included: no frame is lost.
C9_EveryCompleteFrameDecoded ==
    Stated.errors = 0 /\ KnownSecurities
        => IsSubSeq(Stated.events, EventsOf(ws_out))

\* C10: when the buffers received hold a frame of another code or a frame
\* shorter than its length, that frame gives no event and one decode error,
\* and decoding goes on after its declared length.
C10_BadFrameCountedAndSkipped ==
    Stated.errors > 0 /\ KnownSecurities =>
        /\ IsSubSeq(Stated.events, EventsOf(ws_out))
        /\ Len(SelectSeq(ws_out, IsErrorLine)) = Stated.errors


\* a code-4 frame of at least 50 bytes
IsQuoteFrame(message) == Len(message) >= 50 /\ message[1] = 4

\* C11: on_message returns without raising for every message received,
\* whatever its length, code and content, and a message that is not a code-4
\* frame of at least 50 bytes leaves the data store and the per-security
\* history unchanged.
C11_NeverRaisesOnlyQuotesStore ==
    [][ws_received' # ws_received =>
           /\ ~ws_raised'
           /\ ~IsQuoteFrame(Last(ws_received')) =>
                  /\ data_store' = data_store
                  /\ orderflow_history' = orderflow_history]_vars

\* C11 witness: a 5-byte message and a 49-byte code-4 message were handled
\* and nothing was stored
C11_ShortMessagesHandled ==
    /\ ws_received = <<SubSeq(Q1, 1, 5), SubSeq(Q1, 1, 49)>>
    /\ ~ws_raised
    /\ data_store = EmptyDict
    /\ orderflow_history = EmptyDict


\* the event on_message produced last: the code and segment of the header
\* line, the security id and the payload of the event line, and for a Quote
\* frame the payload of the entry stored under the security id
DecodedEvent(lines, store) ==
    LET header == lines[Len(lines) - 1]
        line == Last(lines)
    IN CASE line[1] = "updated" ->
                LET entry == store[StrOf(line[2])]
                IN [code |-> header[2], segment |-> header[4],
                    security_id |-> line[2], ltp |-> entry.ltp,
                    last_traded_qty |-> entry.last_traded_qty,
                    ltt |-> entry.ltt, atp |-> entry.atp,
                    volume |-> entry.volume, sell_qty |-> entry.sell_qty,
                    buy_qty |-> entry.buy_qty, day_open |-> entry.day_open,
                    day_close |-> entry.day_close, day_high |-> entry.day_high,
                    day_low |-> entry.day_low]
         [] line[1] = "ticker" ->
                [code |-> header[2], segment |-> header[4],
                 security_id |-> line[2], ltp |-> line[3], ltt |-> line[4]]
         [] line[1] = "oi" ->
                [code |-> header[2], segment |-> header[4],
                 security_id |-> line[2], oi |-> line[3]]
         [] OTHER -> EmptyDict

\* C12: for every event of a supported code (4 Quote, 2 Ticker, 5 Open
\* Interest), decoding the frame that encodes the event gives the event
\* back: same code, same security id, same payload values.
C12_DecodeOfEncode ==
    [][\A event \in Events :
           ws_received' = Append(ws_received, encode(event))
               => DecodedEvent(ws_out', data_store') = event]_vars

\* C12 witness: a Quote frame with quantity -3 and buy quantity 70000, then
\* an Open Interest frame, were decoded
C12_QuoteThenOI ==
    /\ Len(ws_received) = 2
    /\ Has(data_store, "2")
    /\ data_store["2"].last_traded_qty = -3
    /\ data_store["2"].buy_qty = 70000
    /\ Last(ws_out) = <<"oi", 1, 70000>>


\* the instruments of a sequence of subscribe messages, in send order
RECURSIVE Subscribed(_)
Subscribed(messages) ==
    IF messages = <<>> THEN <<>>
    ELSE Head(messages).InstrumentList \o Subscribed(Tail(messages))

\* C13: on connection open, for an instrument list of any length n, every
\* subscribe message carries at most 100 instruments and an InstrumentCount
\* equal to its batch length, and the batches in send order make up the
\* whole list: ceil(n / 100) messages, none when n = 0.
C13_SubscribeInBatches ==
    \A c \in DOMAIN ws_conns :
        ws_conns[c].state = "open" =>
            LET sent == ws_conns[c].sent
                n == Len(instrument_list)
            IN /\ \A k \in DOMAIN sent :
                      /\ sent[k].InstrumentCount = Len(sent[k].InstrumentList)
                      /\ sent[k].InstrumentCount <= 100
                      /\ sent[k].InstrumentCount >= 1
               /\ Subscribed(sent) = instrument_list
               /\ Len(sent) = (n + 99) \div 100

\* C13 witness: 250 instruments were subscribed as 100, 100 and 50
C13_ThreeBatches ==
    /\ Len(instrument_list) = 250
    /\ Len(ws_conns) >= 1
    /\ ws_conns[1].state = "open"
    /\ Len(ws_conns[1].sent) = 3
    /\ ws_conns[1].sent[1].InstrumentCount = 100
    /\ ws_conns[1].sent[3].InstrumentCount = 50


\* the feed thread has lost its connection / is connected again
FeedDown == feed_pc = "sleep"

FeedUp == feed_pc = "get_data" /\ feed_conn = "open"

\* the websocket client has lost every connection it had / has a connection
\* on which the whole instrument list is subscribed
ClientDown ==
    /\ ws_conns # <<>>
    /\ \A c \in DOMAIN ws_conns : ws_conns[c].state = "closed"

ClientUp ==
    \E c \in DOMAIN ws_conns :
        /\ ws_conns[c].state = "open"
        /\ Subscribed(ws_conns[c].sent) = instrument_list

\* C14: after any disconnect or connection error the feed session reconnects
\* after the backoff and subscribes the full instrument set again, after
\* every failure, and a failure never ends the feed loop: the feed thread and
\* the websocket client alike come up again whenever they are down.
C14_AlwaysReconnects == (FeedDown ~> FeedUp) /\ (ClientDown ~> ClientUp)

\* the part of C14 about marketfeed_thread
FeedThreadReconnects == FeedDown ~> FeedUp


\* the connections that are active in the process
ActiveConnections ==
    Cardinality({c \in DOMAIN ws_conns : ws_conns[c].state = "open"})
    + (IF feed_conn = "open" THEN 1 ELSE 0)

\* C18: at every moment at most one feed connection is active in the
\* process, for any sequence of starts, failures and reconnects.
C18_AtMostOneConnection == ActiveConnections <= 1

\* C19: every Quote event dispatched is persisted exactly once, in arrival
\* order, with its tick-rule fields: the rows of a security are, in order,
\* its processed Quote events, and the stored previous price is that of an
\* event whose row was persisted.
C19_EveryQuotePersistedOnce ==
    \A security_id \in DOMAIN orderflow_history \cup DOMAIN prev_ltp :
        LET events == QuoteEventsOf(security_id)
            rows == RowsOf(security_id)
        IN /\ Len(rows) = Len(events)
           /\ \A i \in 1..Len(rows) :
                  LET tick == TickRule(i > 1,
                                  IF i > 1 THEN events[i - 1].LTP ELSE 0,
                                  events[i].LTP, Get(events[i], "LTQ", 0))
                  IN /\ rows[i].ltp = events[i].LTP
                     /\ rows[i].buy_initiated = tick.buy_initiated
                     /\ rows[i].sell_initiated = tick.sell_initiated
                     /\ rows[i].tick_delta = tick.tick_delta
           /\ Has(prev_ltp, security_id) =>
                  rows # <<>> /\ prev_ltp[security_id] = Last(rows).ltp


\* C15: after a reset every instrument's history is empty and its previous
\* snapshot and previous traded price are absent, so that the first event
\* after the reset is treated like a first event (buy_initiated = 0,
\* sell_initiated = 0, no delta against data from before the reset).
C15_ResetClearsState ==
    [][last_reset_date' # last_reset_date =>
           /\ orderflow_history' = EmptyDict
           /\ prev_ltp' = EmptyDict
           /\ previous_book' = None
           /\ previous_traded_data' = None]_vars


\* C16: a concurrent reader never observes an intermediate state of an
\* update of the feed thread: whenever the latest-state cache holds a record
\* for a security, the history of that security exists, is not empty and
\* ends with that record.
C16_LatestIsLastOfHistory ==
    \A security_id \in DOMAIN live_market_data :
        /\ Has(orderflow_history, security_id)
        /\ orderflow_history[security_id] # <<>>
        /\ Last(orderflow_history[security_id]) = live_market_data[security_id]

\* no handler is in flight
AllIdle == feed_pc = "get_data" /\ ws_pc = "idle"

\* the events of a security processed so far: the Quote events the feed
\* thread has persisted and the Quote packets on_message was given
WsQuotesOf(security_id) ==
    LET Mine(message) ==
            /\ MessageBranch(message) = "quote"
            /\ StrOf(UnpackHeader(message).security_id) = security_id
    IN SelectSeq(ws_received, Mine)

Processed(security_id) == Len(RowsOf(security_id)) + Len(WsQuotesOf(security_id))

\* C17: under any interleaving of the event handlers of the feed thread and
\* of the websocket callback thread on one security no update is lost: once
\* every call in flight has finished, the history of the security holds one
\* record for every event processed.
C17_NoLostUpdate ==
    AllIdle =>
        \A security_id \in {"1", "2"} :
            Len(Get(orderflow_history, security_id, <<>>)) = Processed(security_id)


\* the signals of the records inside the lookback window of the summary
WindowSignals ==
    LET Inside(data) == data.timestamp > now - summary_lookback * 60
    IN [i \in DOMAIN SelectSeq(order_flow_history, Inside) |->
            SelectSeq(order_flow_history, Inside)[i].signal]

\* how often a label occurs among the first n signals
CountOf(signals, label, n) ==
    Cardinality({i \in 1..n : signals[i] = label})

MaxCountOf(signals) ==
    CHOOSE m \in 0..Len(signals) :
        /\ \A i \in DOMAIN signals : CountOf(signals, signals[i], Len(signals)) <= m
        /\ signals # <<>> =>
               \E i \in DOMAIN signals : CountOf(signals, signals[i], Len(signals)) = m

\* the label whose running count is the first to arrive at the maximum count
FirstToReachMax(signals) ==
    signals[CHOOSE i \in DOMAIN signals :
                /\ CountOf(signals, signals[i], i) = MaxCountOf(signals)
                /\ \A j \in 1..(i - 1) :
                       CountOf(signals, signals[j], j) < MaxCountOf(signals)]

\* the label that occurs first in the window among those with the maximum count
FirstSeenAmongMax(signals) ==
    signals[CHOOSE i \in DOMAIN signals :
                /\ CountOf(signals, signals[i], Len(signals)) = MaxCountOf(signals)
                /\ \A j \in 1..(i - 1) :
                       CountOf(signals, signals[j], Len(signals))
                           < MaxCountOf(signals)]

\* C20: the dominant label of get_flow_summary has the maximum count among
\* the records in the lookback window, and when several labels tie for that
\* count it is the label that reached the maximum count first, in
\* chronological insertion order.
C20_DominantFirstToReachMax ==
    summary # EmptyDict =>
        /\ CountOf(WindowSignals, summary.dominant_signal, Len(WindowSignals))
               = MaxCountOf(WindowSignals)
        /\ summary.dominant_signal = FirstToReachMax(WindowSignals)

\* C20 as amended: the dominant label has the maximum count, and when
\* several labels tie for that count it is the one of them that occurs
\* first in the window.
C20_DominantFirstSeenAmongMax ==
    summary # EmptyDict =>
        /\ CountOf(WindowSignals, summary.dominant_signal, Len(WindowSignals))
               = MaxCountOf(WindowSignals)
        /\ summary.dominant_signal = FirstSeenAmongMax(WindowSignals)

\* C20 witness: bullish, bearish, bearish, bullish in the window: a tie that
\* the bearish label reached first and the bullish label wins
C20_TieGoesToFirstSeen ==
    /\ WindowSignals
           = <<"BULLISH_FLOW", "BEARISH_FLOW", "BEARISH_FLOW", "BULLISH_FLOW">>
    /\ summary # EmptyDict
    /\ summary.dominant_signal = "BULLISH_FLOW"

----------------------------------------------------------------------------
(* C21: what get_flow_summary returns *)

\* the positions of the history whose record is inside the lookback window
InWindow ==
    {i \in DOMAIN order_flow_history :
         order_flow_history[i].timestamp > now - summary_lookback * 60}

\* the net_trade_flow of a record, 0 for a record without a delta
NetTradeFlowOf(data) ==
    IF Has(data, "traded_delta") /\ Has(data.traded_delta, "net_trade_flow")
    THEN data.traded_delta.net_trade_flow
    ELSE 0

\* the sum of f over a finite set of positions
RECURSIVE SumOver(_, _)
SumOver(S, f) ==
    IF S = {} THEN 0
    ELSE LET i == CHOOSE x \in S : TRUE
         IN f[i] + SumOver(S \ {i}, f)

\* the counts of a signal distribution, added up
CountsTotal(signal_counts) ==
    SumOver(DOMAIN signal_counts,
            [i \in DOMAIN signal_counts |-> signal_counts[i][2]])

\* C21: get_flow_summary returns an empty result exactly when no history
\* record has a timestamp inside the lookback window; otherwise data_points
\* is the number of in-window records, the per-label counts sum to
\* data_points, and total_net_trade_flow is the sum of the in-window
\* records' net_trade_flow, a record without a delta counting as 0.
C21_SummaryOfWindow ==
    summary_lookback # 0 =>
        /\ summary = EmptyDict <=> InWindow = {}
        /\ summary # EmptyDict =>
               /\ summary.data_points = Cardinality(InWindow)
               /\ CountsTotal(summary.signal_distribution) = summary.data_points
               /\ summary.total_net_trade_flow
                      = SumOver(InWindow,
                                [i \in InWindow |->
                                     NetTradeFlowOf(order_flow_history[i])])

\* C21 witness: a 30-minute summary of a history with a record on the cutoff
\* (outside), a record without a delta and a record with one (both inside)
C21_WindowWithAndWithoutDelta ==
    /\ summary_lookback = 30
    /\ summary # EmptyDict
    /\ Cardinality(InWindow) < Len(order_flow_history)
    /\ \E i \in InWindow : order_flow_history[i].traded_delta = EmptyDict
    /\ \E i \in InWindow : NetTradeFlowOf(order_flow_history[i]) # 0
    /\ summary.total_net_trade_flow # 0

----------------------------------------------------------------------------
(* C22: the routes on a security without data *)

\* a step in which the route answers a request
Answers(route) ==
    /\ Get(http_request', "route", "") = route
    /\ <<http_request, http_response>>' # <<http_request, http_response>>

\* the events the feed thread has received for a security, oldest first
Received(security_id) == Get(orderflow_history, security_id, <<>>)

\* the rows persisted for a security
Persisted(security_id) ==
    {i \in DOMAIN db : db[i].security_id = security_id}

\* C22: the live-data query returns the most recent event received for the
\* security, or not-found when no event has been received for it; the history
\* query and the delta-data query for an unknown security return an empty
\* result rather than an error.
C22_LatestOrNotFoundAndEmpty ==
    [][LET security_id == http_request'.security_id
       IN /\ Answers("live_data") =>
                 IF Received(security_id) = <<>>
                 THEN http_response'.status = 404
                 ELSE http_response'
                          = [status |-> 200, body |-> Last(Received(security_id))]
          /\ Answers("orderflow_history") /\ Received(security_id) = <<>> =>
                 http_response' = [status |-> 200, body |-> <<>>]
          /\ Answers("delta_data") /\ Persisted(security_id) = {} =>
                 http_response' = [status |-> 200, body |-> <<>>]]_vars

\* C22 witness: the live-data query answered with the newest of two
\* different events of the security
C22_LatestOfTwo ==
    /\ Get(http_request, "route", "") = "live_data"
    /\ Len(Received(http_request.security_id)) >= 2
    /\ http_response.status = 200
    /\ http_response.body = Last(Received(http_request.security_id))
    /\ http_response.body # Received(http_request.security_id)[1]

----------------------------------------------------------------------------
(* C23..C27: the buckets of the delta-data query *)

\* the last request answered was a delta-data query
DeltaAnswered == Get(http_request, "route", "") = "delta_data"

\* the interval of the query, in minutes
QueryInterval == Interval(http_request.args)

\* the wall-clock minute of the day of a persisted snapshot: its LTT, or the
\* clock of the server when the event carried none
WallClock(row) ==
    IF row.timestamp[1] = "ltt" THEN row.timestamp[2]
    ELSE row.timestamp[2] \div 60

\* the largest multiple of the interval not later than a minute
WindowOf(minute, interval) == minute - (minute % interval)

\* the snapshots the query read that fall into the window starting at start
InWindowOf(start) ==
    {i \in DOMAIN df : WindowOf(WallClock(df[i]), QueryInterval) = start}

\* the starts of the windows that contain a snapshot
WindowStarts == {WindowOf(WallClock(df[i]), QueryInterval) : i \in DOMAIN df}

\* a set of numbers in increasing order
RECURSIVE Increasing(_)
Increasing(S) ==
    IF S = {} THEN <<>>
    ELSE LET least == CHOOSE x \in S : \A y \in S : x <= y
         IN <<least>> \o Increasing(S \ {least})

\* the buckets of the answer
Body == http_response.body

\* C23: every persisted snapshot of the security is counted in exactly one
\* bucket, the one whose start is the largest calendar-clock multiple of the
\* interval not later than the snapshot's wall-clock time; the result holds
\* one bucket per window containing at least one snapshot, none for a window
\* containing zero snapshots, in increasing order of bucket start (interval 5,
\* snapshots at 09:16, 09:17, 09:21: buckets 09:15 and 09:20).
C23_OneBucketPerWindow ==
    DeltaAnswered =>
        /\ Len(Body) = Cardinality(WindowStarts)
        /\ \A k \in DOMAIN Body :
               Body[k].timestamp
                   = <<Increasing(WindowStarts)[k] \div 60,
                       Increasing(WindowStarts)[k] % 60>>

\* every snapshot the query read carries an LTT
AllTimed == \A i \in DOMAIN df : df[i].timestamp[1] = "ltt"

\* the same for a security all of whose snapshots carry an LTT
BucketsOfTimedSnapshots == AllTimed => C23_OneBucketPerWindow

\* interval 5 and snapshots at 09:16, 09:17 and 09:21 give the buckets 09:15
\* and 09:20
BucketAlignmentScenario ==
    /\ DeltaAnswered
    /\ QueryInterval = 5
    /\ [i \in DOMAIN df |-> WallClock(df[i])] = <<556, 557, 561>>
    /\ AllTimed
    /\ [k \in DOMAIN Body |-> Body[k].timestamp] = << <<9, 15>>, <<9, 20>> >>

\* the snapshots the query read that the aggregator counts: those whose
\* timestamp it can parse
Counted == {i \in DOMAIN df : df[i].timestamp[1] = "ltt"}

\* the starts of the windows with a counted snapshot, in increasing order
BucketStarts ==
    Increasing({WindowOf(WallClock(df[i]), QueryInterval) : i \in Counted})

\* the snapshots counted in the k-th bucket
SnapshotsOf(k) == Counted \cap InWindowOf(BucketStarts[k])

\* snapshot i is before snapshot j: earlier on the clock, or read earlier at
\* the same time
Earlier(i, j) ==
    \/ WallClock(df[i]) < WallClock(df[j])
    \/ WallClock(df[i]) = WallClock(df[j]) /\ i <= j

FirstOf(S) == CHOOSE i \in S : \A j \in S : Earlier(i, j)

LastOf(S) == CHOOSE i \in S : \A j \in S : Earlier(j, i)

\* the sum of a column over a set of snapshots
SumOf(S, column) == SumOver(S, [i \in S |-> df[i][column]])

\* C24: for every bucket with at least two snapshots, buy_volume is the
\* cumulative buy value of the bucket's last snapshot minus that of its first
\* snapshot, sell_volume likewise, and delta equals buy_volume - sell_volume
\* exactly; buy_initiated, sell_initiated and tick_delta are the sums of
\* those fields over all snapshots in the bucket.
C24_VolumesBetweenBucketEdges ==
    DeltaAnswered =>
        /\ Len(Body) = Len(BucketStarts)
        /\ \A k \in DOMAIN Body :
               LET S == SnapshotsOf(k)
               IN Cardinality(S) >= 2 =>
                      /\ Body[k].buy_volume
                             = df[LastOf(S)].buy_volume - df[FirstOf(S)].buy_volume
                      /\ Body[k].sell_volume
                             = df[LastOf(S)].sell_volume - df[FirstOf(S)].sell_volume
                      /\ Body[k].delta = Body[k].buy_volume - Body[k].sell_volume
                      /\ Body[k].buy_initiated = SumOf(S, "buy_initiated")
                      /\ Body[k].sell_initiated = SumOf(S, "sell_initiated")
                      /\ Body[k].tick_delta = SumOf(S, "tick_delta")

\* C24 witness: a bucket of three snapshots with a buy volume, a sell volume,
\* a delta and a tick delta that are not 0
C24_BucketOfThree ==
    /\ DeltaAnswered
    /\ \E k \in DOMAIN Body :
           /\ Cardinality(SnapshotsOf(k)) = 3
           /\ Body[k].buy_volume # 0
           /\ Body[k].sell_volume # 0
           /\ Body[k].delta # 0
           /\ Body[k].tick_delta # 0

\* the cumulative values of a column never decrease from a snapshot to a
\* later one
NonDecreasing(column) ==
    \A i, j \in DOMAIN df : Earlier(i, j) => df[i][column] <= df[j][column]

\* a field of the buckets, added up
BodySum(field) == SumOver(DOMAIN Body, [k \in DOMAIN Body |-> Body[k][field]])

\* last minus first over all the snapshots the query read
RangeOf(column) ==
    df[LastOf(DOMAIN df)][column] - df[FirstOf(DOMAIN df)][column]

\* C25: bucket volumes never double count and are never negative within a
\* session: for a security whose persisted cumulative buy (resp. sell) values
\* are non-decreasing in timestamp order, every bucket's buy_volume (resp.
\* sell_volume) is >= 0 and the sum of buy_volume over all buckets is at most
\* last.buy - first.buy over the whole queried range.
C25_VolumesWithinRange ==
    DeltaAnswered /\ df # <<>> =>
        /\ NonDecreasing("buy_volume") =>
               /\ \A k \in DOMAIN Body : Body[k].buy_volume >= 0
               /\ BodySum("buy_volume") <= RangeOf("buy_volume")
        /\ NonDecreasing("sell_volume") =>
               /\ \A k \in DOMAIN Body : Body[k].sell_volume >= 0
               /\ BodySum("sell_volume") <= RangeOf("sell_volume")

\* C25 witness: snapshots received out of the order of their times, with
\* cumulative values that rise with the time; the buckets report a volume
\* and less than the rise over the range
C25_RisingOverTwoBuckets ==
    /\ DeltaAnswered
    /\ QueryInterval = 5
    /\ Len(df) = 3
    /\ NonDecreasing("buy_volume")
    /\ \E i \in DOMAIN db : i < Len(db) /\ db[i].security_id = "1"
           /\ db[Len(db)].security_id = "1"
           /\ db[i].timestamp[1] = "ltt" /\ db[Len(db)].timestamp[1] = "ltt"
           /\ db[i].timestamp[2] > db[Len(db)].timestamp[2]
    /\ Len(Body) = 2
    /\ BodySum("buy_volume") > 0
    /\ BodySum("buy_volume") < RangeOf("buy_volume")

\* C26: for every bucket with exactly one snapshot, buy_volume, sell_volume,
\* delta, buy_initiated, sell_initiated and tick_delta are all reported as 0,
\* open = high = low = close = that snapshot's price, and the dominance label
\* is Neutral.
C26_SingleSnapshotBucket ==
    DeltaAnswered =>
        /\ Len(Body) = Len(BucketStarts)
        /\ \A k \in DOMAIN Body :
               LET S == SnapshotsOf(k)
               IN Cardinality(S) = 1 =>
                      /\ \A field \in {"buy_volume", "sell_volume", "delta",
                                       "buy_initiated", "sell_initiated",
                                       "tick_delta"} : Body[k][field] = 0
                      /\ \A field \in {"open", "high", "low", "close"} :
                             Body[k][field] = df[FirstOf(S)].ltp
                      /\ Body[k].inference = "Neutral"

\* C26 witness: a bucket of one snapshot whose own tick delta is not 0
C26_SingleWithOwnTick ==
    /\ DeltaAnswered
    /\ \E k \in DOMAIN Body :
           /\ Cardinality(SnapshotsOf(k)) = 1
           /\ df[FirstOf(SnapshotsOf(k))].tick_delta # 0
           /\ Body[k].tick_delta = 0

\* C27: for every emitted bucket the dominance label agrees with the bucket's
\* reported tick_delta: "Buy Dominant" exactly when tick_delta > 0, "Sell
\* Dominant" exactly when tick_delta < 0, "Neutral" exactly when it is 0; and
\* for a bucket with a non-null price, open is the first non-null price,
\* close the last non-null price, high the maximum and low the minimum, so
\* low <= open <= high and low <= close <= high.
C27_LabelAndOHLC ==
    DeltaAnswered =>
        /\ Len(Body) = Len(BucketStarts)
        /\ \A k \in DOMAIN Body :
               LET S == SnapshotsOf(k)
               IN /\ Body[k].inference = "Buy Dominant" <=> Body[k].tick_delta > 0
                  /\ Body[k].inference = "Sell Dominant" <=> Body[k].tick_delta < 0
                  /\ Body[k].inference = "Neutral" <=> Body[k].tick_delta = 0
                  /\ Body[k].open = df[FirstOf(S)].ltp
                  /\ Body[k].close = df[LastOf(S)].ltp
                  /\ \E i \in S : Body[k].high = df[i].ltp
                  /\ \E i \in S : Body[k].low = df[i].ltp
                  /\ \A i \in S : Body[k].low <= df[i].ltp
                                  /\ df[i].ltp <= Body[k].high
                  /\ Body[k].low <= Body[k].open /\ Body[k].open <= Body[k].high
                  /\ Body[k].low <= Body[k].close /\ Body[k].close <= Body[k].high

\* C27 witness: a sell-dominant bucket that opens at its high and closes at
\* its low, next to a neutral one
C27_SellDominantBucket ==
    /\ DeltaAnswered
    /\ \E k \in DOMAIN Body :
           /\ Body[k].inference = "Sell Dominant"
           /\ Body[k].open = Body[k].high
           /\ Body[k].close = Body[k].low
           /\ Body[k].low < Body[k].high
    /\ \E k \in DOMAIN Body : Body[k].inference = "Neutral"

\* what a route handler reads
EngineState ==
    <<feedVars, data_store, analyzerVars, delta_history, last_reset_date>>

\* C28: two delta-data queries for the same security and interval with no
\* snapshot appended between them return identical bucket sequences, and a
\* query changes neither the persisted snapshots nor any engine state
\* (latest-state cache, history, previous prices).
C28_QueryIdempotent ==
    [][<<http_request, http_response, df>>' # <<http_request, http_response, df>>
       /\ Get(http_request', "route", "") = "delta_data" =>
           /\ EngineState' = EngineState
           /\ http_request' = http_request /\ df' = df =>
                  http_response' = http_response]_vars

\* C28 witness: a query answered with two buckets whose answer is the one
\* the same query gets now, nothing having been appended since
C28_SameAnswerAgain ==
    /\ DeltaAnswered
    /\ Len(Body) = 2
    /\ df = read_sql_query(db, http_request.security_id)
    /\ http_response = Response(200, DeltaData(df, http_request.args))

\* the traded-quantity inputs of the signal give no point to either side
NeutralPrimaries(traded_delta) ==
    /\ Get(traded_delta, "net_trade_flow", 0) = 0
    /\ ~RatLT(Get(traded_delta, "buy_percentage", Rat(50, 1)), Rat(40, 1))
    /\ ~RatGT(Get(traded_delta, "buy_percentage", Rat(50, 1)), Rat(60, 1))
    /\ ~RatLT(Get(traded_delta, "buy_intensity", Rat(1, 2)), Rat(4, 10))
    /\ ~RatGT(Get(traded_delta, "buy_intensity", Rat(1, 2)), Rat(6, 10))

\* the order book gives both of its points to the buying side
BookBullish(data) ==
    /\ RatGT(data.imbalance_ratio, Rat(15, 10))
    /\ data.large_orders.large_bid_count > data.large_orders.large_ask_count

\* C29: the first event processed for an analyzer (no previous snapshot,
\* hence no traded delta) always gets the label NEUTRAL_FLOW; more generally,
\* whenever net_trade_flow is 0, buy_percentage is within 40..60 and
\* buy_intensity within 0.4..0.6, the order-book signals alone (imbalance
\* ratio and large-order counts, at most 2 points) can never produce
\* BULLISH_FLOW or BEARISH_FLOW.
C29_BookAloneIsNeutral ==
    /\ order_flow_history # <<>> =>
           /\ order_flow_history[1].traded_delta = EmptyDict
           /\ order_flow_history[1].signal = "NEUTRAL_FLOW"
    /\ \A i \in DOMAIN order_flow_history :
           NeutralPrimaries(order_flow_history[i].traded_delta) =>
               order_flow_history[i].signal = "NEUTRAL_FLOW"

\* C29 witness: a first event whose book gives two points to the buying
\* side, then an event with a traded delta of no net flow
C29_FirstEventWithBullishBook ==
    /\ Len(order_flow_history) = 2
    /\ BookBullish(order_flow_history[1])
    /\ order_flow_history[1].signal = "NEUTRAL_FLOW"
    /\ order_flow_history[2].traded_delta # EmptyDict
    /\ NeutralPrimaries(order_flow_history[2].traded_delta)
    /\ order_flow_history[2].signal = "NEUTRAL_FLOW"

\* the same for generate_order_flow_signals on every input of SpecSignal:
\* percentages and intensities at and next to the thresholds, every book
SignalOfNeutralPrimaries ==
    sig_result # "" /\ NeutralPrimaries(sig_flow_data.traded_delta) =>
        sig_result = "NEUTRAL_FLOW"

\* C30: process_order_flow is all-or-nothing on the analyzer state: when
\* market depth cannot be fetched it returns None and leaves
\* order_flow_history, previous_book and previous_traded_data unchanged; when
\* it returns a record, that record is the newest history entry and
\* previous_book / previous_traded_data are both those of the same snapshot.
C30_AllOrNothing ==
    [][/\ (result' = None /\ result' # result) =>
              UNCHANGED <<order_flow_history, previous_book, previous_traded_data>>
       /\ (\/ order_flow_history' # order_flow_history
           \/ previous_book' # previous_book
           \/ previous_traded_data' # previous_traded_data
           \/ result' # result /\ result' # None) =>
              /\ result' # None
              /\ order_flow_history' # <<>>
              /\ Last(order_flow_history') = result'
              /\ Len(order_flow_history') = Len(order_flow_history) + 1
              /\ SubSeq(order_flow_history', 1, Len(order_flow_history))
                     = order_flow_history
              /\ previous_traded_data' = result'.traded_quantities
              /\ previous_traded_data'
                     = extract_traded_quantities(previous_book', now)
              /\ Get(previous_book', "last_price", 0) = result'.ltp]_vars

\* C30 witness: after a record was returned, a fetch that failed: None is
\* returned and the state is still that of the record's snapshot
C30_NoneAfterRecord ==
    /\ result = None
    /\ Len(order_flow_history) = 1
    /\ previous_traded_data = order_flow_history[1].traded_quantities
    /\ previous_traded_data = extract_traded_quantities(previous_book, now)

\* a cache holds, for exactly the securities with a history, the last element
\* of the history
Tracks(cache) ==
    \A security_id \in DOMAIN cache \cup DOMAIN orderflow_history :
        /\ Has(orderflow_history, security_id) <=> Has(cache, security_id)
        /\ Has(cache, security_id) =>
               /\ Get(orderflow_history, security_id, <<>>) # <<>>
               /\ Last(orderflow_history[security_id]) = cache[security_id]

\* C31: after the feed thread has fully processed any sequence of events, for
\* every security with an entry in the latest-state cache the cache entry is
\* the last element of that security's history, and a security has a history
\* entry if and only if it has a latest-state entry.
C31_CacheTracksHistory == Tracks(live_market_data)

\* the same while on_message has been given no packet: the events are those
\* of the feed thread alone
CacheTracksHistoryOfFeedAlone ==
    ws_received = <<>> => Tracks(live_market_data)

\* and the store of the websocket client tracks the history while the feed
\* thread has processed no event
StoreTracksHistoryOfClientAlone ==
    live_market_data = EmptyDict => Tracks(data_store)

\* events of two securities processed by the feed thread alone
FeedAloneScenario ==
    /\ ws_received = <<>>
    /\ Has(live_market_data, "1") /\ Has(live_market_data, "2")
    /\ Len(orderflow_history["1"]) = 2

\* C32: every persisted row satisfies buy_initiated >= 0, sell_initiated >= 0,
\* at most one of them is non-zero, and tick_delta = buy_initiated -
\* sell_initiated, for any sequence of Quote events (including events with
\* zero, missing or negative last-traded quantity).
C32_TickFieldsOfRows ==
    \A i \in DOMAIN db :
        /\ db[i].buy_initiated >= 0
        /\ db[i].sell_initiated >= 0
        /\ db[i].buy_initiated = 0 \/ db[i].sell_initiated = 0
        /\ db[i].tick_delta = db[i].buy_initiated - db[i].sell_initiated

\* what holds of every row: at most one of the two is not 0, tick_delta is
\* their difference, and neither is negative unless the event's quantity is
TickFieldsOfRowsUpToSign ==
    \A i \in DOMAIN db :
        /\ db[i].buy_initiated = 0 \/ db[i].sell_initiated = 0
        /\ db[i].tick_delta = db[i].buy_initiated - db[i].sell_initiated
        /\ \A field \in {"buy_initiated", "sell_initiated"} :
               db[i][field] < 0 =>
                   \E security_id \in DOMAIN orderflow_history :
                       \E k \in DOMAIN orderflow_history[security_id] :
                           Get(orderflow_history[security_id][k], "LTQ", 0)
                               = db[i][field]

\* rows of a rise and of a fall with a positive quantity, and of an event
\* with quantity 0 at a changed price
TickFieldsScenario ==
    /\ \E i \in DOMAIN db : db[i].buy_initiated > 0
    /\ \E i \in DOMAIN db : db[i].sell_initiated > 0

====
